---- MODULE Spec2Model ----
(***************************************************************************)
(* Line attribution ("blame") of an editable text buffer:                  *)
(*   crates/git/src/blame.rs              BufferBlame (index and queries)  *)
(*   crates/git/src/blame_incremental.rs  parse_git_blame (stream parser)  *)
(* The text buffer (text::BufferSnapshot, text::Anchor) and the SumTree    *)
(* are collaborators of the index; they are modelled at their interface.   *)
(***************************************************************************)
EXTENDS Integers, Sequences, FiniteSets, TLC

\* ------------------------------------------------------------------ bounds
\* Most lines a buffer holds (initially, and after insertions).
MaxLines == 3
\* Most buffer edits in one behaviour.
MaxEdits == 1
\* Most lines of a `git blame --incremental` stream fed to the parser.
MaxStreamLen == 5
\* Most lines of a stream whose records repeat a commit id.
MaxRepeatLen == 8
\* Most calls of update one thread makes.
MaxCalls == 2
\* Lines of a stream that carries lines with keys the parser does not know.
MaxUnknownLen == 6
\* Insertions and deletions made in a buffer after its index was built.
MaxDeleteEdits == 2
\* Lines of the buffer whose index is laid out in trees of every shape.
MaxTreeLines == 4
\* Most chunks of buffer content given to git_blame_incremental, and the
\* chunks the pipe to the subprocess holds before a write blocks.
MaxContentLen == 3
PipeCapacity == 2
MaxRoomCommits == 2
MaxTokenCalls == 3
MaxDbCalls == 4
MaxConflicts == 2
MaxSettingsChanges == 5
\* Most chunks of output the subprocess writes to its standard output.
MaxOutputLen == 3

VARIABLES
    frags,                \* text::BufferSnapshot: its characters, in order
    version,              \* text::BufferSnapshot::version()
    tree,                 \* BufferBlame.tree
    last_buffer_version,  \* BufferBlame.last_buffer_version
    last,                 \* the last operation and what it returned
    built,                \* the input of the last update that returned Ok
    output,               \* parse_git_blame: the lines of `output` read so far
    entries,              \* parse_git_blame: entries
    index,                \* parse_git_blame: index
    current_entry,        \* parse_git_blame: current_entry
    parsed,               \* parse_git_blame: "running", or what it returned
    adapter,              \* git_blame_incremental: one run, its subprocess and result
    datetime,             \* committer_datetime: one call, its entry and result
    mutex,                \* Arc<Mutex<dyn GitRepository>>: the thread holding it, if any
    threads,              \* threads calling update on one repository handle
    query,                \* one query: its range, its cursor and what it has yielded
    cx,                   \* AppContext: the Assistant and CommandPaletteFilter globals
    db,                   \* the database: its committed rows and its id sequences
    tx,                   \* one call of a Database method: its transact loop and transaction
    rooms,                \* Database.rooms: a mutex per room id
    tasks                 \* tasks calling commit_room_transaction

blameVars == <<frags, version, tree, last_buffer_version, last, built>>
parseVars == <<output, entries, index, current_entry, parsed>>
callVars == <<adapter, datetime>>
lockVars == <<mutex, threads>>
sideVars == <<mutex, threads, query>>
appVars == <<cx, db, tx, rooms, tasks>>
dbVars == <<db, tx>>
roomVars == <<rooms, tasks>>
vars == <<frags, version, tree, last_buffer_version, last, built,
          output, entries, index, current_entry, parsed, adapter, datetime,
          mutex, threads, query, cx, db, tx, rooms, tasks>>

\* Option<T>: None is <<>>, Some(x) is <<x>>.
None == <<>>
Some(x) == <<x>>

SetMax(S) == CHOOSE x \in S : \A y \in S : y <= x
SetMin(S) == CHOOSE x \in S : \A y \in S : y >= x
Range(s) == {s[i] : i \in DOMAIN s}

\* ------------------------------------------------- text::BufferSnapshot
\* A buffer is the sequence of every character ever inserted, each with a
\* unique id; a deleted character stays in place, no longer visible.
Char(i, isNl) == [id |-> i, nl |-> isNl, vis |-> TRUE]

\* A buffer of n lines "a\n"; the last line may lack its newline.
InitialBuffer(n, trailingNl) ==
    [i \in 1..(IF trailingNl THEN 2 * n ELSE 2 * n - 1) |-> Char(i, i % 2 = 0)]

\* Number of visible characters among the first g.
VisCount(f, g) == Cardinality({i \in 1..g : f[i].vis})

\* Point of the gap after the first g characters.
RowAt(f, g) == Cardinality({i \in 1..g : f[i].vis /\ f[i].nl})

ColAt(f, g) ==
    LET nls == {i \in 1..g : f[i].vis /\ f[i].nl}
        from == IF nls = {} THEN 0 ELSE SetMax(nls)
    IN  Cardinality({i \in (from + 1)..g : f[i].vis})

TextLen(f) == VisCount(f, Len(f))
MaxRow(f) == RowAt(f, Len(f))
MaxCol(f) == ColAt(f, Len(f))

\* buffer_text.lines().count(): the lines the attribution source sees.
LineCount(f) == IF MaxCol(f) > 0 THEN MaxRow(f) + 1 ELSE MaxRow(f)

\* Index of the k-th visible character.
NthVisible(f, k) == CHOOSE i \in 1..Len(f) : f[i].vis /\ VisCount(f, i) = k

\* Point::new(row, 0).to_offset(buffer): a point past the end clips to the end.
PointToOffset(f, row) ==
    IF row > MaxRow(f) THEN TextLen(f)
    ELSE IF row = 0 THEN 0
    ELSE LET g == CHOOSE i \in 1..Len(f) :
                      f[i].vis /\ f[i].nl /\ RowAt(f, i) = row
         IN  VisCount(f, g)

\* text::Anchor: a position tied to a character. A Left anchor sits after the
\* character it names, a Right anchor before it; id 0 names no character:
\* Anchor::MIN (Left) and Anchor::MAX (Right).
AnchorMin == [id |-> 0, bias |-> "Left"]
AnchorMax == [id |-> 0, bias |-> "Right"]

AnchorAtOffset(f, offset, bias) ==
    IF bias = "Left"
    THEN IF offset = 0 THEN AnchorMin
         ELSE [id |-> f[NthVisible(f, offset)].id, bias |-> "Left"]
    ELSE IF offset = TextLen(f) THEN AnchorMax
         ELSE [id |-> f[NthVisible(f, offset + 1)].id, bias |-> "Right"]

anchor_before(f, row) == AnchorAtOffset(f, PointToOffset(f, row), "Left")
anchor_after(f, row) == AnchorAtOffset(f, PointToOffset(f, row), "Right")

\* The gap (number of characters before it, deleted ones included) an anchor is in.
FullIndex(f, id) == CHOOSE i \in 1..Len(f) : f[i].id = id

Gap(f, a) ==
    IF a.id = 0 THEN (IF a.bias = "Left" THEN 0 ELSE Len(f))
    ELSE IF a.bias = "Left" THEN FullIndex(f, a.id) ELSE FullIndex(f, a.id) - 1

\* Anchor::cmp(a, b, buffer): -1, 0 or 1. Position first, then bias (Left < Right).
AnchorCmp(a, b, f) ==
    LET ga == Gap(f, a)
        gb == Gap(f, b)
    IN  IF ga < gb THEN -1
        ELSE IF ga > gb THEN 1
        ELSE IF a.bias = b.bias THEN 0
        ELSE IF a.bias = "Left" THEN -1 ELSE 1

AnchorMinOf(a, b, f) == IF AnchorCmp(a, b, f) <= 0 THEN a ELSE b
AnchorMaxOf(a, b, f) == IF AnchorCmp(a, b, f) >= 0 THEN a ELSE b

\* summaries_for_anchors::<Point>: the anchor's point in the buffer as it is now.
SummaryForAnchor(f, a) == [row |-> RowAt(f, Gap(f, a)), column |-> ColAt(f, Gap(f, a))]

\* An edit inserting k lines "a\n" at Point(row, 0). New text goes after the
\* deleted characters at the place of insertion.
InsertAt(f, offset, new) ==
    LET g == IF offset = TextLen(f) THEN Len(f) ELSE NthVisible(f, offset + 1) - 1
    IN  SubSeq(f, 1, g) \o new \o SubSeq(f, g + 1, Len(f))

NewLines(f, k) == [i \in 1..(2 * k) |-> Char(Len(f) + i, i % 2 = 0)]

\* ------------------------------------------- the attribution source (git2)
\* Oid 0 is the all-zero commit id (Oid::is_zero): an uncommitted change.
Oids == {0, 1, 2}
\* The commits among them.
CommittedOids == {1, 2}

\* Commits, among them two whose signature time cannot be built: commit 3 has
\* an offset of a full day, commit 4 a time of i64::MAX seconds.
SignatureOids == {1, 3, 4}

\* i64::MAX (a stand-in value: the model computes with 32-bit integers, and
\* every other time of the model lies far below it).
I64_MAX == 2147483647

\* hunk.final_signature() of a commit: name, email, when (seconds, offset_minutes).
FinalSignature(oid) ==
    CASE oid = 1 ->
            [name |-> Some("A"), email |-> Some("a@x"), seconds |-> 1000, offset_minutes |-> 60]
      [] oid = 3 ->
            [name |-> Some("C"), email |-> Some("c@x"), seconds |-> 3000, offset_minutes |-> 1440]
      [] oid = 4 ->
            [name |-> Some("D"), email |-> None, seconds |-> I64_MAX, offset_minutes |-> 0]
      [] OTHER ->
            [name |-> Some("B"), email |-> None, seconds |-> 2000, offset_minutes |-> 0]

RawHunk(oid, start, count) ==
    [final_commit_id |-> oid, final_start_line |-> start, lines_in_hunk |-> count,
     final_signature |-> FinalSignature(oid)]

\* What blame_buffer can yield for lines from..n: hunks in ascending line order
\* that cover every line once.
RECURSIVE BlameFrom(_, _, _)
BlameFrom(from, n, oids) ==
    IF from > n THEN {<<>>}
    ELSE UNION {{<<RawHunk(oid, from, count)>> \o rest :
                    rest \in BlameFrom(from + count, n, oids)} :
                oid \in oids, count \in 1..(n - from + 1)}

BlameOutputs(f, oids) == BlameFrom(1, LineCount(f), oids)

\* ------------------------------------------------------ crates/git/src/blame.rs
\* FixedOffset::east_opt accepts offsets strictly inside one day.
SecondsPerDay == 86400

\* fixed_offset.timestamp_opt(secs, 0): Single, or None for a time outside the
\* dates chrono can hold, as i64::MAX seconds is.
timestamp_opt(secs) == IF secs = I64_MAX THEN "None" ELSE "Single"

\* git_time_to_chrono: Ok(DateTime<FixedOffset>) or Err.
git_time_to_chrono(time) ==
    LET offset_seconds == time.offset_minutes * 60
    IN  IF offset_seconds <= -SecondsPerDay \/ offset_seconds >= SecondsPerDay
        THEN [ok |-> FALSE]
        ELSE IF timestamp_opt(time.seconds) # "Single"
        THEN [ok |-> FALSE]
        ELSE [ok |-> TRUE, time |-> [seconds |-> time.seconds, offset |-> offset_seconds]]

\* lines_in_hunk() of a hunk whose size is unknown: usize::MAX (a stand-in
\* value; no row count of the model reaches it).
USIZE_MAX == 2147483647

\* A plausible slip: the check for an uncommitted hunk is left out.
OidIsZeroNever(oid) == FALSE

\* oid.is_zero(), as process_blame_hunk asks it of hunk.final_commit_id().
OidIsZero(oid) == oid = 0

\* A plausible slip: the 1-indexed final start line is taken as a row as it is.
process_blame_hunk_one_based(hunk, f, signatures) ==
    LET oid == hunk.final_commit_id
        start_line == hunk.final_start_line
        buffer_range == [start |-> anchor_before(f, start_line),
                         end |-> anchor_before(f, start_line + hunk.lines_in_hunk)]
    IN  IF OidIsZero(oid) THEN [result |-> "None", signatures |-> signatures]
        ELSE IF hunk.lines_in_hunk = USIZE_MAX
        THEN [result |-> "None", signatures |-> signatures]
        ELSE IF oid \in DOMAIN signatures
        THEN [result |-> "Some", signatures |-> signatures,
              hunk |-> [buffer_range |-> buffer_range, oid |-> oid,
                        name |-> signatures[oid].name,
                        email |-> signatures[oid].email,
                        time |-> signatures[oid].time]]
        ELSE LET final_signature == hunk.final_signature
                 when == git_time_to_chrono([seconds |-> final_signature.seconds,
                                             offset_minutes |-> final_signature.offset_minutes])
             IN  IF ~when.ok THEN [result |-> "Err", signatures |-> signatures]
                 ELSE LET signature == [name |-> final_signature.name,
                                        email |-> final_signature.email,
                                        time |-> when.time]
                      IN  [result |-> "Some",
                           signatures |-> [o \in DOMAIN signatures \cup {oid} |->
                                             IF o = oid THEN signature ELSE signatures[o]],
                           hunk |-> [buffer_range |-> buffer_range, oid |-> oid,
                                     name |-> signature.name,
                                     email |-> signature.email,
                                     time |-> signature.time]]

\* A plausible slip: the signature resolved for a commit is not put into the cache.
process_blame_hunk_uncached(hunk, f, signatures) ==
    LET oid == hunk.final_commit_id
        start_line == hunk.final_start_line - 1
        buffer_range == [start |-> anchor_before(f, start_line),
                         end |-> anchor_before(f, start_line + hunk.lines_in_hunk)]
    IN  IF OidIsZero(oid) THEN [result |-> "None", signatures |-> signatures]
        ELSE IF hunk.lines_in_hunk = USIZE_MAX
        THEN [result |-> "None", signatures |-> signatures]
        ELSE IF oid \in DOMAIN signatures
        THEN [result |-> "Some", signatures |-> signatures,
              hunk |-> [buffer_range |-> buffer_range, oid |-> oid,
                        name |-> signatures[oid].name,
                        email |-> signatures[oid].email,
                        time |-> signatures[oid].time]]
        ELSE LET final_signature == hunk.final_signature
                 when == git_time_to_chrono([seconds |-> final_signature.seconds,
                                             offset_minutes |-> final_signature.offset_minutes])
             IN  IF ~when.ok THEN [result |-> "Err", signatures |-> signatures]
                 ELSE LET signature == [name |-> final_signature.name,
                                        email |-> final_signature.email,
                                        time |-> when.time]
                      IN  [result |-> "Some",
                           signatures |-> signatures,
                           hunk |-> [buffer_range |-> buffer_range, oid |-> oid,
                                     name |-> signature.name,
                                     email |-> signature.email,
                                     time |-> signature.time]]

\* A plausible slip: the end point is made of the line count alone, as a last row.
process_blame_hunk_count_as_end(hunk, f, signatures) ==
    LET oid == hunk.final_commit_id
        start_line == hunk.final_start_line - 1
        buffer_range == [start |-> anchor_before(f, start_line),
                         end |-> anchor_before(f, hunk.lines_in_hunk - 1)]
    IN  IF OidIsZero(oid) THEN [result |-> "None", signatures |-> signatures]
        ELSE IF hunk.lines_in_hunk = USIZE_MAX
        THEN [result |-> "None", signatures |-> signatures]
        ELSE IF oid \in DOMAIN signatures
        THEN [result |-> "Some", signatures |-> signatures,
              hunk |-> [buffer_range |-> buffer_range, oid |-> oid,
                        name |-> signatures[oid].name,
                        email |-> signatures[oid].email,
                        time |-> signatures[oid].time]]
        ELSE LET final_signature == hunk.final_signature
                 when == git_time_to_chrono([seconds |-> final_signature.seconds,
                                             offset_minutes |-> final_signature.offset_minutes])
             IN  IF ~when.ok THEN [result |-> "Err", signatures |-> signatures]
                 ELSE LET signature == [name |-> final_signature.name,
                                        email |-> final_signature.email,
                                        time |-> when.time]
                      IN  [result |-> "Some",
                           signatures |-> [o \in DOMAIN signatures \cup {oid} |->
                                             IF o = oid THEN signature ELSE signatures[o]],
                           hunk |-> [buffer_range |-> buffer_range, oid |-> oid,
                                     name |-> signature.name,
                                     email |-> signature.email,
                                     time |-> signature.time]]

\* BufferBlame::process_blame_hunk: Ok(Some(hunk)), Ok(None) or Err, and the
\* signature cache after the call.
process_blame_hunk(hunk, f, signatures) ==
    LET oid == hunk.final_commit_id
        start_line == hunk.final_start_line - 1
        buffer_range == [start |-> anchor_before(f, start_line),
                         end |-> anchor_before(f, start_line + hunk.lines_in_hunk)]
    IN  IF OidIsZero(oid) THEN [result |-> "None", signatures |-> signatures]
        ELSE IF hunk.lines_in_hunk = USIZE_MAX
        THEN [result |-> "None", signatures |-> signatures]
        ELSE IF oid \in DOMAIN signatures
        THEN [result |-> "Some", signatures |-> signatures,
              hunk |-> [buffer_range |-> buffer_range, oid |-> oid,
                        name |-> signatures[oid].name,
                        email |-> signatures[oid].email,
                        time |-> signatures[oid].time]]
        ELSE LET final_signature == hunk.final_signature
                 when == git_time_to_chrono([seconds |-> final_signature.seconds,
                                             offset_minutes |-> final_signature.offset_minutes])
             IN  IF ~when.ok THEN [result |-> "Err", signatures |-> signatures]
                 ELSE LET signature == [name |-> final_signature.name,
                                        email |-> final_signature.email,
                                        time |-> when.time]
                      IN  [result |-> "Some",
                           signatures |-> [o \in DOMAIN signatures \cup {oid} |->
                                             IF o = oid THEN signature ELSE signatures[o]],
                           hunk |-> [buffer_range |-> buffer_range, oid |-> oid,
                                     name |-> signature.name,
                                     email |-> signature.email,
                                     time |-> signature.time]]

\* SumTree::push: the item becomes the last item of the tree.
TreePush(t, item) == Append(t, item)

\* A plausible slip: the loop stops one hunk short (0..len - 1).
RECURSIVE BuildTreeShort(_, _, _, _, _)
BuildTreeShort(blame_buffer, hunk_index, f, t, signatures) ==
    IF hunk_index >= Len(blame_buffer) THEN t
    ELSE LET r == process_blame_hunk(blame_buffer[hunk_index], f, signatures)
         IN  BuildTreeShort(blame_buffer, hunk_index + 1, f,
                            IF r.result = "Some" THEN TreePush(t, r.hunk) ELSE t,
                            r.signatures)

\* A plausible slip: the loop ends at the first hunk that fails (a break on Err).
RECURSIVE BuildTreeStopping(_, _, _, _, _)
BuildTreeStopping(blame_buffer, hunk_index, f, t, signatures) ==
    IF hunk_index > Len(blame_buffer) THEN t
    ELSE LET r == process_blame_hunk(blame_buffer[hunk_index], f, signatures)
         IN  IF r.result = "Err" THEN t
             ELSE BuildTreeStopping(blame_buffer, hunk_index + 1, f,
                                    IF r.result = "Some" THEN TreePush(t, r.hunk) ELSE t,
                                    r.signatures)

\* A plausible slip: the loop ends at the first hunk that yields no hunk.
RECURSIVE BuildTreeUntilNone(_, _, _, _, _)
BuildTreeUntilNone(blame_buffer, hunk_index, f, t, signatures) ==
    IF hunk_index > Len(blame_buffer) THEN t
    ELSE LET r == process_blame_hunk(blame_buffer[hunk_index], f, signatures)
         IN  IF r.result # "Some" THEN t
             ELSE BuildTreeUntilNone(blame_buffer, hunk_index + 1, f,
                                     TreePush(t, r.hunk), r.signatures)

\* The loop of BufferBlame::update over the raw hunks from hunk_index on:
\* .log_err().flatten() turns Err and Ok(None) alike into "no hunk".
RECURSIVE BuildTree(_, _, _, _, _)
BuildTree(blame_buffer, hunk_index, f, t, signatures) ==
    IF hunk_index > Len(blame_buffer) THEN t
    ELSE LET r == process_blame_hunk(blame_buffer[hunk_index], f, signatures)
         IN  BuildTree(blame_buffer, hunk_index + 1, f,
                       IF r.result = "Some" THEN TreePush(t, r.hunk) ELSE t,
                       r.signatures)

\* The tree BufferBlame::update stores: built from an empty tree and an empty cache.
NewTree(blame_buffer, f) == BuildTree(blame_buffer, 1, f, <<>>, <<>>)

\* BlameHunk<Anchor>::summary
ItemSummary(hunk) == hunk.buffer_range

\* A plausible slip: the smaller end and the larger start are kept.
add_summary_swapped(self, other, f) ==
    [start |-> AnchorMaxOf(self.start, other.start, f),
     end |-> AnchorMinOf(self.end, other.end, f)]

\* BlameHunkSummary::add_summary
add_summary(self, other, f) ==
    [start |-> AnchorMinOf(self.start, other.start, f),
     end |-> AnchorMaxOf(self.end, other.end, f)]

\* A plausible slip: the first test looks at the start of the summary, not its end.
FilterNodeStartForEnd(summary, range, f) ==
    LET before_start == AnchorCmp(summary.start, range.start, f) < 0
        after_end == AnchorCmp(summary.start, range.end, f) > 0
    IN  ~before_start /\ ~after_end

\* Plausible slips: one of the two tests of the closure is left out.
FilterNodeNoAfterEnd(summary, range, f) == ~(AnchorCmp(summary.end, range.start, f) < 0)
FilterNodeNoBeforeStart(summary, range, f) == ~(AnchorCmp(summary.start, range.end, f) > 0)

\* The closure given to tree.filter in hunks_intersecting_range.
FilterNode(summary, range, f) ==
    LET before_start == AnchorCmp(summary.end, range.start, f) < 0
        after_end == AnchorCmp(summary.start, range.end, f) > 0
    IN  ~before_start /\ ~after_end

\* FilterCursor over a tree of one leaf: the items whose summary passes, in order.
FilterItems(t, range, f) ==
    SelectSeq(t, LAMBDA hunk : FilterNode(ItemSummary(hunk), range, f))

\* A plausible slip: the end row is rounded up whatever the column.
EndRowAlwaysUp(end_point) == end_point.row + 1

\* The end row of an emitted hunk.
EndRow(end_point) ==
    IF end_point.column > 0 THEN end_point.row + 1 ELSE end_point.row

\* A plausible slip: the anchors are resolved in the snapshot the index was
\* built against, not in the snapshot given to the query.
RowHunkStale(hunk, f) ==
    LET g == IF built = None THEN f ELSE built[1].frags
        start_point == SummaryForAnchor(g, hunk.buffer_range.start)
        end_point == SummaryForAnchor(g, hunk.buffer_range.end)
    IN  [buffer_range |-> [start |-> start_point.row, end |-> EndRow(end_point)],
         oid |-> hunk.oid, name |-> hunk.name, email |-> hunk.email, time |-> hunk.time]

\* One emitted BlameHunk<u32>.
RowHunk(hunk, f) ==
    LET start_point == SummaryForAnchor(f, hunk.buffer_range.start)
        end_point == SummaryForAnchor(f, hunk.buffer_range.end)
    IN  [buffer_range |-> [start |-> start_point.row, end |-> EndRow(end_point)],
         oid |-> hunk.oid, name |-> hunk.name, email |-> hunk.email, time |-> hunk.time]

\* Adjacent hunks of one commit made into one.
RECURSIVE MergeAdjacent(_)
MergeAdjacent(hs) ==
    IF Len(hs) < 2 THEN hs
    ELSE IF hs[1].oid = hs[2].oid /\ hs[1].buffer_range.end = hs[2].buffer_range.start
    THEN MergeAdjacent(<<[hs[1] EXCEPT !.buffer_range.end = hs[2].buffer_range.end]>>
                       \o SubSeq(hs, 3, Len(hs)))
    ELSE <<hs[1]>> \o MergeAdjacent(Tail(hs))

\* What the code does not do: the emitted hunks pass through a merge.
hunks_intersecting_range_merging(t, range, f) ==
    LET kept == FilterItems(t, range, f)
    IN  MergeAdjacent([i \in 1..Len(kept) |-> RowHunk(kept[i], f)])

\* BufferBlame::hunks_intersecting_range, collected.
hunks_intersecting_range(t, range, f) ==
    LET kept == FilterItems(t, range, f)
    IN  [i \in 1..Len(kept) |-> RowHunk(kept[i], f)]

\* BufferBlame::hunks_in_row_range, collected.
hunks_in_row_range(t, row_start, row_end, f) ==
    hunks_intersecting_range(
        t, [start |-> anchor_before(f, row_start), end |-> anchor_after(f, row_end)], f)

\* Every position reference a caller can make into buffer f.
Anchors(f) == {AnchorAtOffset(f, o, b) : o \in 0..TextLen(f), b \in {"Left", "Right"}}

\* Row ranges a caller asks about.
RowRanges(f) == {r \in (0..(MaxRow(f) + 2)) \X (0..(MaxRow(f) + 2)) : r[1] <= r[2]}

\* ------------------------------------------ crates/git/src/blame_incremental.rs
UNCOMMITTED_SHA == "0000000000000000000000000000000000000000"
JoeSha == "6ad46b5257ba16d12c5ca9f0d4900320959df7f4"

\* The decimal numerals of the streams and their values.
NumeralValue(token) ==
    CASE token = "1" -> 1
      [] token = "2" -> 2
      [] token = "3" -> 3
      [] token = "4" -> 4
      [] token = "1000" -> 1000
      [] OTHER -> 0
IsNumeral(token) == token \in {"1", "2", "3", "4", "1000"}

\* str::parse::<u32>: Ok(value) for a decimal numeral, Err for any other token.
ParseU32(token) ==
    IF IsNumeral(token) THEN [ok |-> TRUE, value |-> NumeralValue(token)] ELSE [ok |-> FALSE]

\* str::parse::<i64>: as parse::<u32>, and a numeral may carry a minus sign.
ParseI64(token) ==
    IF IsNumeral(token) THEN [ok |-> TRUE, value |-> NumeralValue(token)]
    ELSE IF token = "-1000" THEN [ok |-> TRUE, value |-> -1000]
    ELSE [ok |-> FALSE]

\* parts.join(" ")
RECURSIVE Join(_)
Join(parts) ==
    IF Len(parts) = 0 THEN ""
    ELSE IF Len(parts) = 1 THEN parts[1]
    ELSE parts[1] \o " " \o Join(Tail(parts))

\* BlameEntry::default()
DefaultEntry ==
    [sha |-> "", original_line_number |-> 0, final_line_number |-> 0, line_count |-> 0,
     author |-> "", author_mail |-> "", author_time |-> 0, author_tz |-> "",
     committer |-> "", committer_mail |-> "", committer_time |-> 0, committer_tz |-> "",
     summary |-> "", previous |-> None, filename |-> ""]

\* A plausible slip: the source line and the result line change places.
new_from_first_entry_line_swapped(parts) ==
    IF Len(parts) # 4 THEN [ok |-> FALSE]
    ELSE LET original_line_number == ParseU32(parts[3])
             final_line_number == ParseU32(parts[2])
             line_count == ParseU32(parts[4])
         IN  IF ~original_line_number.ok \/ ~final_line_number.ok \/ ~line_count.ok
             THEN [ok |-> FALSE]
             ELSE [ok |-> TRUE,
                   entry |-> [DefaultEntry EXCEPT !.sha = parts[1],
                                  !.original_line_number = original_line_number.value,
                                  !.final_line_number = final_line_number.value,
                                  !.line_count = line_count.value]]

\* A plausible slip: the pattern takes the first four tokens of a longer line
\* ([sha, source, result, num, ..]).
new_from_first_entry_line_lenient(parts) ==
    IF Len(parts) < 4 THEN [ok |-> FALSE]
    ELSE LET original_line_number == ParseU32(parts[2])
             final_line_number == ParseU32(parts[3])
             line_count == ParseU32(parts[4])
         IN  IF ~original_line_number.ok \/ ~final_line_number.ok \/ ~line_count.ok
             THEN [ok |-> FALSE]
             ELSE [ok |-> TRUE,
                   entry |-> [DefaultEntry EXCEPT !.sha = parts[1],
                                  !.original_line_number = original_line_number.value,
                                  !.final_line_number = final_line_number.value,
                                  !.line_count = line_count.value]]

\* BlameEntry::new_from_first_entry_line: Ok(entry) or Err.
new_from_first_entry_line(parts) ==
    IF Len(parts) # 4 THEN [ok |-> FALSE]
    ELSE LET original_line_number == ParseU32(parts[2])
             final_line_number == ParseU32(parts[3])
             line_count == ParseU32(parts[4])
         IN  IF ~original_line_number.ok \/ ~final_line_number.ok \/ ~line_count.ok
             THEN [ok |-> FALSE]
             ELSE [ok |-> TRUE,
                   entry |-> [DefaultEntry EXCEPT !.sha = parts[1],
                                  !.original_line_number = original_line_number.value,
                                  !.final_line_number = final_line_number.value,
                                  !.line_count = line_count.value]]

\* A plausible slip: one of the nine fields, the summary, is not copied.
BackfillNoSummary(new_entry, existing_entry) ==
    [new_entry EXCEPT !.author = existing_entry.author,
                      !.author_mail = existing_entry.author_mail,
                      !.author_time = existing_entry.author_time,
                      !.author_tz = existing_entry.author_tz,
                      !.committer = existing_entry.committer,
                      !.committer_mail = existing_entry.committer_mail,
                      !.committer_time = existing_entry.committer_time,
                      !.committer_tz = existing_entry.committer_tz]

\* The Some(existing_entry) branch: signature fields copied from the indexed entry.
Backfill(new_entry, existing_entry) ==
    [new_entry EXCEPT !.author = existing_entry.author,
                      !.author_mail = existing_entry.author_mail,
                      !.author_time = existing_entry.author_time,
                      !.author_tz = existing_entry.author_tz,
                      !.committer = existing_entry.committer,
                      !.committer_mail = existing_entry.committer_mail,
                      !.committer_time = existing_entry.committer_time,
                      !.committer_tz = existing_entry.committer_tz,
                      !.summary = existing_entry.summary]

\* The author arm of the match on the key.
AuthorField(entry, value) ==
    IF entry.sha = UNCOMMITTED_SHA THEN "Not commited" ELSE value

\* The committer arm of the match on the key.
CommitterField(entry, value) ==
    IF entry.sha = UNCOMMITTED_SHA THEN "Not commited" ELSE value

\* A plausible slip: a time that is no integer is stored as 0
\* (value.parse::<i64>().unwrap_or_default()).
ApplyFieldDefaultingTime(entry, key, value) ==
    CASE key = "filename" -> [ok |-> TRUE, done |-> TRUE, entry |-> [entry EXCEPT !.filename = value]]
      [] key = "author-time" ->
            [ok |-> TRUE, done |-> FALSE,
             entry |-> [entry EXCEPT !.author_time =
                           IF ParseI64(value).ok THEN ParseI64(value).value ELSE 0]]
      [] key = "committer-time" ->
            [ok |-> TRUE, done |-> FALSE,
             entry |-> [entry EXCEPT !.committer_time =
                           IF ParseI64(value).ok THEN ParseI64(value).value ELSE 0]]
      [] OTHER -> [ok |-> TRUE, done |-> FALSE, entry |-> entry]

\* A plausible slip: a key that is not known is an error.
ApplyFieldStrict(entry, key, value) ==
    CASE key = "filename" -> [ok |-> TRUE, done |-> TRUE, entry |-> [entry EXCEPT !.filename = value]]
      [] key = "summary" -> [ok |-> TRUE, done |-> FALSE, entry |-> [entry EXCEPT !.summary = value]]
      [] key = "previous" ->
            [ok |-> TRUE, done |-> FALSE, entry |-> [entry EXCEPT !.previous = Some(value)]]
      [] key = "author" ->
            [ok |-> TRUE, done |-> FALSE,
             entry |-> [entry EXCEPT !.author = AuthorField(entry, value)]]
      [] key = "author-mail" ->
            [ok |-> TRUE, done |-> FALSE, entry |-> [entry EXCEPT !.author_mail = value]]
      [] key = "author-time" ->
            IF ~ParseI64(value).ok THEN [ok |-> FALSE]
            ELSE [ok |-> TRUE, done |-> FALSE,
                  entry |-> [entry EXCEPT !.author_time = ParseI64(value).value]]
      [] key = "author-tz" ->
            [ok |-> TRUE, done |-> FALSE, entry |-> [entry EXCEPT !.author_tz = value]]
      [] key = "committer" ->
            [ok |-> TRUE, done |-> FALSE,
             entry |-> [entry EXCEPT !.committer = CommitterField(entry, value)]]
      [] key = "committer-mail" ->
            [ok |-> TRUE, done |-> FALSE, entry |-> [entry EXCEPT !.committer_mail = value]]
      [] key = "committer-time" ->
            IF ~ParseI64(value).ok THEN [ok |-> FALSE]
            ELSE [ok |-> TRUE, done |-> FALSE,
                  entry |-> [entry EXCEPT !.committer_time = ParseI64(value).value]]
      [] key = "committer-tz" ->
            [ok |-> TRUE, done |-> FALSE, entry |-> [entry EXCEPT !.committer_tz = value]]
      [] OTHER -> [ok |-> FALSE]

\* A plausible slip: the summary line ends the record as well.
ApplyFieldDoneOnSummary(entry, key, value) ==
    CASE key = "filename" -> [ok |-> TRUE, done |-> TRUE, entry |-> [entry EXCEPT !.filename = value]]
      [] key = "summary" -> [ok |-> TRUE, done |-> TRUE, entry |-> [entry EXCEPT !.summary = value]]
      [] key = "previous" ->
            [ok |-> TRUE, done |-> FALSE, entry |-> [entry EXCEPT !.previous = Some(value)]]
      [] key = "author" ->
            [ok |-> TRUE, done |-> FALSE,
             entry |-> [entry EXCEPT !.author = AuthorField(entry, value)]]
      [] key = "author-mail" ->
            [ok |-> TRUE, done |-> FALSE, entry |-> [entry EXCEPT !.author_mail = value]]
      [] key = "author-time" ->
            IF ~ParseI64(value).ok THEN [ok |-> FALSE]
            ELSE [ok |-> TRUE, done |-> FALSE,
                  entry |-> [entry EXCEPT !.author_time = ParseI64(value).value]]
      [] key = "author-tz" ->
            [ok |-> TRUE, done |-> FALSE, entry |-> [entry EXCEPT !.author_tz = value]]
      [] key = "committer" ->
            [ok |-> TRUE, done |-> FALSE,
             entry |-> [entry EXCEPT !.committer = CommitterField(entry, value)]]
      [] key = "committer-mail" ->
            [ok |-> TRUE, done |-> FALSE, entry |-> [entry EXCEPT !.committer_mail = value]]
      [] key = "committer-time" ->
            IF ~ParseI64(value).ok THEN [ok |-> FALSE]
            ELSE [ok |-> TRUE, done |-> FALSE,
                  entry |-> [entry EXCEPT !.committer_time = ParseI64(value).value]]
      [] key = "committer-tz" ->
            [ok |-> TRUE, done |-> FALSE, entry |-> [entry EXCEPT !.committer_tz = value]]
      [] OTHER -> [ok |-> TRUE, done |-> FALSE, entry |-> entry]

\* The match on the key of a line read while an entry is open:
\* Ok(entry, done) or Err (a time that is no integer).
ApplyField(entry, key, value) ==
    CASE key = "filename" -> [ok |-> TRUE, done |-> TRUE, entry |-> [entry EXCEPT !.filename = value]]
      [] key = "summary" -> [ok |-> TRUE, done |-> FALSE, entry |-> [entry EXCEPT !.summary = value]]
      [] key = "previous" ->
            [ok |-> TRUE, done |-> FALSE, entry |-> [entry EXCEPT !.previous = Some(value)]]
      [] key = "author" ->
            [ok |-> TRUE, done |-> FALSE,
             entry |-> [entry EXCEPT !.author = AuthorField(entry, value)]]
      [] key = "author-mail" ->
            [ok |-> TRUE, done |-> FALSE, entry |-> [entry EXCEPT !.author_mail = value]]
      [] key = "author-time" ->
            IF ~ParseI64(value).ok THEN [ok |-> FALSE]
            ELSE [ok |-> TRUE, done |-> FALSE,
                  entry |-> [entry EXCEPT !.author_time = ParseI64(value).value]]
      [] key = "author-tz" ->
            [ok |-> TRUE, done |-> FALSE, entry |-> [entry EXCEPT !.author_tz = value]]
      [] key = "committer" ->
            [ok |-> TRUE, done |-> FALSE,
             entry |-> [entry EXCEPT !.committer = CommitterField(entry, value)]]
      [] key = "committer-mail" ->
            [ok |-> TRUE, done |-> FALSE, entry |-> [entry EXCEPT !.committer_mail = value]]
      [] key = "committer-time" ->
            IF ~ParseI64(value).ok THEN [ok |-> FALSE]
            ELSE [ok |-> TRUE, done |-> FALSE,
                  entry |-> [entry EXCEPT !.committer_time = ParseI64(value).value]]
      [] key = "committer-tz" ->
            [ok |-> TRUE, done |-> FALSE, entry |-> [entry EXCEPT !.committer_tz = value]]
      [] OTHER -> [ok |-> TRUE, done |-> FALSE, entry |-> entry]

\* A plausible slip: the slot is kept when the sha is already in the index
\* (index.entry(sha).or_insert(slot)).
IndexInsertOnce(idx, sha, slot) ==
    [k \in DOMAIN idx \cup {sha} |-> IF k \in DOMAIN idx THEN idx[k] ELSE slot]

\* index.insert(sha, slot): a later slot replaces an earlier one.
IndexInsert(idx, sha, slot) ==
    [k \in DOMAIN idx \cup {sha} |-> IF k = sha THEN slot ELSE idx[k]]

\* The lines of the streams fed to the parser, each already split at white space.
HeaderUncommitted == <<UNCOMMITTED_SHA, "3", "3", "1">>
HeaderJoe == <<JoeSha, "2", "4", "1">>
StreamLines ==
    {HeaderUncommitted, HeaderJoe,
     <<"author", "Not", "Committed", "Yet">>,
     <<"committer", "Not", "Committed", "Yet">>,
     <<"summary", "Joe's", "cool", "commit">>,
     <<"previous", "486c24", "index.js">>,
     <<"filename", "index.js">>,
     <<>>}

\* NaiveDateTime::from_timestamp_opt(secs, 0): None for a time outside the
\* dates chrono can hold, as i64::MAX seconds is.
from_timestamp_opt(secs) == IF secs = I64_MAX THEN None ELSE Some(secs)

\* The offset strings given to committer_datetime that are signed decimal
\* integers of 32 bits, and their values.
TzValue(token) ==
    CASE token = "+0000" -> 0
      [] token = "+0100" -> 100
      [] token = "-0200" -> -200
      [] token = "+0530" -> 530
      [] token = "-0230" -> -230
      [] token = "+2359" -> 2359
      [] token = "+240000" -> 240000
      [] token = "-240000" -> -240000
      [] OTHER -> 0
IsI32(token) ==
    token \in {"+0000", "+0100", "-0200", "+0530", "-0230", "+2359", "+240000", "-240000"}

\* A plausible slip: an offset string that is no integer counts as 0
\* (parse::<i32>().unwrap_or(0)).
ParseI32Defaulting(token) ==
    IF IsI32(token) THEN [ok |-> TRUE, value |-> TzValue(token)] ELSE [ok |-> TRUE, value |-> 0]

\* str::parse::<i32>: Ok(value), or Err for a token that is no integer of 32 bits.
ParseI32(token) ==
    IF IsI32(token) THEN [ok |-> TRUE, value |-> TzValue(token)] ELSE [ok |-> FALSE]

\* i32 division: the quotient is rounded towards zero.
TruncDiv(a, b) == IF a >= 0 THEN a \div b ELSE -((-a) \div b)

\* FixedOffset::east_opt(secs): Some for an offset of less than a day.
east_opt(secs) == IF -SecondsPerDay < secs /\ secs < SecondsPerDay THEN Some(secs) ELSE None

\* BlameEntry::committer_datetime: Ok(DateTime<FixedOffset>), Err, or a panic
\* (the expect on the time, which comes before the offset is looked at).
committer_datetime(self) ==
    LET naive_datetime == from_timestamp_opt(self.committer_time)
        parsed_tz == ParseI32(self.committer_tz)
        timezone_offset_in_seconds == TruncDiv(parsed_tz.value, 100) * 36
    IN  IF naive_datetime = None
        THEN [result |-> "Panic", message |-> "failed to parse timestamp"]
        ELSE IF ~parsed_tz.ok
        THEN [result |-> "Err", message |-> "Failed to parse timezone offset"]
        ELSE IF east_opt(timezone_offset_in_seconds) = None
        THEN [result |-> "Err", message |-> "Invalid timezone offset"]
        ELSE [result |-> "Ok",
              datetime |-> [seconds |-> naive_datetime[1],
                            offset |-> east_opt(timezone_offset_in_seconds)[1]]]

\* The entries committer_datetime is called on: their times and offset strings.
CommitterTimes == {0, 1000, -1000, 1709741400, I64_MAX}
CommitterTzs ==
    {"+0000", "+0100", "-0200", "+0530", "-0230", "+2359", "+240000", "-240000",
     "", "abc", "+01:00", "99999999999"}
DatetimeEntries ==
    {[DefaultEntry EXCEPT !.committer_time = t, !.committer_tz = tz] :
        t \in CommitterTimes, tz \in CommitterTzs}

\* The first line of an entry: <40-byte-hex-sha1> <sourceline> <resultline> <num-lines>.
IsHeaderLine(parts) ==
    /\ Len(parts) = 4
    /\ parts[1] \in {UNCOMMITTED_SHA, JoeSha}
    /\ \A j \in 2..4 : IsNumeral(parts[j])

\* The last line of an entry: filename <name>.
IsFilenameLine(parts) == Len(parts) >= 2 /\ parts[1] = "filename"

\* The lines of streams in which records repeat a commit id: the later records
\* of a commit carry no signature lines, or carry their own.
RepeatLines ==
    {HeaderJoe, HeaderUncommitted,
     <<"author", "Joe", "Schmoe">>,
     <<"author", "Thorsten", "Ball">>,
     <<"committer-time", "1000">>,
     <<"summary", "Joe's", "cool", "commit">>,
     <<"filename", "index.js">>}

\* The lines of streams in which a later git has added keys: "extension", a
\* key that differs from a known one in case, and a key without a value.
UnknownLines ==
    {HeaderJoe, HeaderUncommitted,
     <<"author", "Joe", "Schmoe">>,
     <<"committer-time", "1000">>,
     <<"filename", "index.js">>,
     <<"extension", "value">>,
     <<"Author", "Thorsten", "Ball">>,
     <<"boundary">>}

\* The lines of streams in which any line may follow any other: a header, a
\* metadata line, a filename line with and without a name, a key alone, a blank line.
AlternationLines ==
    {HeaderJoe,
     <<"summary", "Fix">>,
     <<"filename", "index.js">>,
     <<"filename">>,
     <<"boundary">>,
     <<>>}

\* The lines of streams that are not as git writes them: lines of 0, 1, 2, 3
\* and 5 tokens where a header is due, and numbers that are no integers.
MalformedLines ==
    {HeaderJoe,
     <<JoeSha, "2", "4", "1", "1">>,
     <<JoeSha, "x", "4", "1">>,
     <<JoeSha, "2", "x", "1">>,
     <<JoeSha, "2", "4", "-1000">>,
     <<"author-time", "12x">>,
     <<"committer-time", "abc">>,
     <<"committer-time", "-1000">>,
     <<"previous", "486c24", "index.js">>,
     <<"filename", "index.js">>,
     <<"boundary">>,
     <<>>}

\* git_blame_incremental: how the Command is set up. stdin and stdout are
\* piped; stderr is not mentioned, and a spawned child inherits what is not piped.
ChildStdio == [stdin |-> "piped", stdout |-> "piped", stderr |-> "inherit"]

\* What the subprocess may do: read its standard input to the end or not at
\* all, write a text to its standard error, exit with a code, and write a
\* standard output that is UTF-8 or is not.
StderrTexts == {"", "fatal: no such path 'index.js' in HEAD"}
ChildScripts ==
    [reads : BOOLEAN, code : {0, 128}, stderr : StderrTexts, utf8 : BOOLEAN]

\* A plausible slip: one write call, which may take a part only, for write_all.
write_done(written, contents) == written >= 1 \/ contents = 0

\* stdin.write_all(contents.as_bytes()) has written everything.
write_all_done(written, contents) == written = contents

\* Output.stderr as wait_with_output collects it: what the child wrote, if its
\* stderr is piped; nothing, if the child inherited the parent's.
CollectedStderr(text) == IF ChildStdio.stderr = "piped" THEN text ELSE ""

\* What git_blame_incremental returns once the subprocess has been waited for.
AdapterResult(script) ==
    IF script.code # 0
    THEN [result |-> "Err", at |-> "status",
          message |-> <<"git blame process failed: ", CollectedStderr(script.stderr)>>]
    ELSE IF ~script.utf8
    THEN [result |-> "Err", at |-> "from_utf8", message |-> <<"invalid utf-8 sequence">>]
    ELSE [result |-> "Ok", at |-> "stdout", message |-> <<>>]

\* ----------------------------------------------------------------- actions
\* parse_git_blame at entry.
ParserInit ==
    /\ output = <<>>
    /\ entries = <<>>
    /\ index = <<>>
    /\ current_entry = None
    /\ parsed = "running"

\* BufferBlame::new, beside a buffer f.
IndexInit(f) ==
    /\ frags = f
    /\ version = 0
    /\ tree = <<>>
    /\ last_buffer_version = None
    /\ last = [op |-> "new", result |-> "Ok", repeated |-> FALSE]
    /\ built = None

\* No run of git_blame_incremental and no call of committer_datetime is under way.
CallsIdle ==
    /\ adapter = [pc |-> "idle"]
    /\ datetime = [pc |-> "idle"]

\* The assistant is not initialised, no database call is under way and no
\* task commits a room transaction.
AppIdle ==
    /\ cx = [pc |-> "idle"]
    /\ db = [pc |-> "idle"]
    /\ tx = [pc |-> "idle"]
    /\ rooms = <<>>
    /\ tasks = <<>>

\* No thread shares the repository handle and no query is under way.
SideIdle ==
    /\ mutex = None
    /\ threads = <<>>
    /\ query = [pc |-> "idle"]

Init ==
    /\ \E n \in 1..MaxLines, trailingNl \in BOOLEAN : IndexInit(InitialBuffer(n, trailingNl))
    /\ ParserInit
    /\ AppIdle
    /\ CallsIdle
    /\ SideIdle

\* A plausible slip: the hunks are pushed onto self.tree, not onto a new tree.
UpdateOkAccumulating(blame_buffer) ==
    /\ tree' = BuildTree(blame_buffer, 1, frags, tree, <<>>)
    /\ last_buffer_version' = Some(version)
    /\ last' = [op |-> "update", result |-> "Ok",
                repeated |-> built = Some([blame_buffer |-> blame_buffer,
                                           frags |-> frags, version |-> version])]
    /\ built' = Some([blame_buffer |-> blame_buffer, frags |-> frags, version |-> version])
    /\ UNCHANGED <<frags, version>>

\* A plausible slip: the version is recorded by the first update only.
UpdateOkVersionOnce(blame_buffer) ==
    /\ tree' = NewTree(blame_buffer, frags)
    /\ last_buffer_version' =
          IF last_buffer_version = None THEN Some(version) ELSE last_buffer_version
    /\ last' = [op |-> "update", result |-> "Ok",
                repeated |-> built = Some([blame_buffer |-> blame_buffer,
                                           frags |-> frags, version |-> version])]
    /\ built' = Some([blame_buffer |-> blame_buffer, frags |-> frags, version |-> version])
    /\ UNCHANGED <<frags, version>>

\* BufferBlame::update returning Ok(()). `repeated` notes that the snapshot and
\* the raw hunks are those of the previous successful update.
UpdateOk(blame_buffer) ==
    /\ tree' = NewTree(blame_buffer, frags)
    /\ last_buffer_version' = Some(version)
    /\ last' = [op |-> "update", result |-> "Ok",
                repeated |-> built = Some([blame_buffer |-> blame_buffer,
                                           frags |-> frags, version |-> version])]
    /\ built' = Some([blame_buffer |-> blame_buffer, frags |-> frags, version |-> version])
    /\ UNCHANGED <<frags, version>>

\* A plausible slip: the index is reset before the attribution source is asked.
UpdateErrResetting(failing) ==
    /\ last' = [op |-> "update", result |-> "Err(" \o failing \o ")", repeated |-> FALSE]
    /\ tree' = <<>>
    /\ last_buffer_version' = None
    /\ UNCHANGED <<frags, version, built>>

\* BufferBlame::update when blame_path or blame_buffer fails: `?` returns the error.
UpdateErr(failing) ==
    /\ last' = [op |-> "update", result |-> "Err(" \o failing \o ")", repeated |-> FALSE]
    /\ UNCHANGED <<frags, version, tree, last_buffer_version, built>>

Update(oids) ==
    \/ \E blame_buffer \in BlameOutputs(frags, oids) : UpdateOk(blame_buffer)
    \/ \E failing \in {"blame_path", "blame_buffer"} : UpdateErr(failing)

\* The buffer's owner inserts k whole lines at the start of a row.
Edit ==
    /\ version < MaxEdits
    /\ \E row \in 0..MaxRow(frags), k \in 1..(MaxLines - LineCount(frags)) :
          /\ frags' = InsertAt(frags, PointToOffset(frags, row), NewLines(frags, k))
          /\ last' = [op |-> "edit", result |-> "Ok", repeated |-> FALSE, row |-> row, k |-> k]
    /\ version' = version + 1
    /\ UNCHANGED <<tree, last_buffer_version, built>>

\* Updates of one index against a buffer nobody edits.
Next ==
    \/ Update(Oids) /\ UNCHANGED <<parseVars, callVars, sideVars, appVars>>

Spec == Init /\ [][Next]_vars

\* Updates of one index interleaved with edits of its buffer; every line is committed.
EditNext ==
    \/ Update(CommittedOids) /\ UNCHANGED <<parseVars, callVars, sideVars, appVars>>
    \/ Edit /\ UNCHANGED <<parseVars, callVars, sideVars, appVars>>

EditSpec == Init /\ [][EditNext]_vars

\* Updates from a source some of whose commits have a time that cannot be built.
SignatureNext ==
    \/ Update(SignatureOids) /\ UNCHANGED <<parseVars, callVars, sideVars, appVars>>

SignatureSpec == Init /\ [][SignatureNext]_vars

\* One turn of the loop of parse_git_blame, on the next line of the stream.
ParseStep(parts) ==
    /\ parsed = "running"
    /\ output' = Append(output, parts)
    /\ IF Len(parts) < 2
       THEN UNCHANGED <<entries, index, current_entry, parsed>>
       ELSE IF current_entry = None
       THEN LET r == new_from_first_entry_line(parts)
            IN  IF ~r.ok
                THEN /\ parsed' = "Err"
                     /\ UNCHANGED <<entries, index, current_entry>>
                ELSE /\ current_entry' =
                            Some(IF r.entry.sha \in DOMAIN index /\ index[r.entry.sha] < Len(entries)
                                 THEN Backfill(r.entry, entries[index[r.entry.sha] + 1])
                                 ELSE r.entry)
                     /\ UNCHANGED <<entries, index, parsed>>
       ELSE LET r == ApplyField(current_entry[1], parts[1], Join(Tail(parts)))
            IN  IF ~r.ok
                THEN /\ parsed' = "Err"
                     /\ UNCHANGED <<entries, index, current_entry>>
                ELSE IF r.done
                THEN /\ index' = IndexInsert(index, r.entry.sha, Len(entries))
                     /\ entries' = Append(entries, r.entry)
                     /\ current_entry' = None
                     /\ UNCHANGED parsed
                ELSE /\ current_entry' = Some(r.entry)
                     /\ UNCHANGED <<entries, index, parsed>>

\* A turn of the loop on a line of a stream of at most MaxStreamLen lines.
ParseLine(parts) ==
    /\ Len(output) < MaxStreamLen
    /\ ParseStep(parts)

\* A plausible slip: a record still open at the end of the stream is pushed.
ParseEndFlushing ==
    /\ parsed = "running"
    /\ parsed' = "Ok"
    /\ entries' = IF current_entry = None THEN entries ELSE Append(entries, current_entry[1])
    /\ UNCHANGED <<output, index, current_entry>>

\* The stream ends: parse_git_blame returns Ok(entries).
ParseEnd ==
    /\ parsed = "running"
    /\ parsed' = "Ok"
    /\ UNCHANGED <<output, entries, index, current_entry>>

ParseNext ==
    \/ (\E parts \in StreamLines : ParseLine(parts)) /\ UNCHANGED <<blameVars, callVars, sideVars, appVars>>
    \/ ParseEnd /\ UNCHANGED <<blameVars, callVars, sideVars, appVars>>

ParseInit ==
    /\ IndexInit(InitialBuffer(1, TRUE))
    /\ ParserInit
    /\ AppIdle
    /\ CallsIdle
    /\ SideIdle

ParseSpec == ParseInit /\ [][ParseNext]_vars

\* parse_git_blame on streams whose records repeat a commit id. git writes the
\* stream: a header line comes first and after every filename line, nowhere else.
RepeatLine(parts) ==
    /\ Len(output) < MaxRepeatLen
    /\ IsHeaderLine(parts) <=> (output = <<>> \/ IsFilenameLine(output[Len(output)]))
    /\ ParseStep(parts)

RepeatNext ==
    \/ (\E parts \in RepeatLines : RepeatLine(parts)) /\ UNCHANGED <<blameVars, callVars, sideVars, appVars>>
    \/ ParseEnd /\ UNCHANGED <<blameVars, callVars, sideVars, appVars>>

RepeatSpec == ParseInit /\ [][RepeatNext]_vars

\* parse_git_blame on streams with keys it does not know; the stream is git's: a
\* header line comes first and after every filename line, nowhere else.
UnknownLine(parts) ==
    /\ Len(output) < MaxUnknownLen
    /\ IsHeaderLine(parts) <=> (output = <<>> \/ IsFilenameLine(output[Len(output)]))
    /\ ParseStep(parts)

UnknownNext ==
    \/ (\E parts \in UnknownLines : UnknownLine(parts)) /\ UNCHANGED <<blameVars, callVars, sideVars, appVars>>
    \/ ParseEnd /\ UNCHANGED <<blameVars, callVars, sideVars, appVars>>

UnknownSpec == ParseInit /\ [][UnknownNext]_vars

\* parse_git_blame on streams whose lines come in any order.
AlternationLine(parts) ==
    /\ Len(output) < MaxStreamLen
    /\ ParseStep(parts)

AlternationNext ==
    \/ (\E parts \in AlternationLines : AlternationLine(parts))
          /\ UNCHANGED <<blameVars, callVars, sideVars, appVars>>
    \/ ParseEnd /\ UNCHANGED <<blameVars, callVars, sideVars, appVars>>

AlternationSpec == ParseInit /\ [][AlternationNext]_vars

\* parse_git_blame on streams that are not as git writes them.
MalformedLine(parts) ==
    /\ Len(output) < MaxStreamLen
    /\ ParseStep(parts)

MalformedNext ==
    \/ (\E parts \in MalformedLines : MalformedLine(parts)) /\ UNCHANGED <<blameVars, callVars, sideVars, appVars>>
    \/ ParseEnd /\ UNCHANGED <<blameVars, callVars, sideVars, appVars>>

MalformedSpec == ParseInit /\ [][MalformedNext]_vars

\* A caller calls committer_datetime on an entry.
CommitterDatetime ==
    /\ datetime.pc = "called"
    /\ datetime' = [pc |-> "returned", self |-> datetime.self,
                    returned |-> committer_datetime(datetime.self)]
    /\ UNCHANGED adapter

DatetimeNext ==
    \/ CommitterDatetime /\ UNCHANGED <<blameVars, parseVars, sideVars, appVars>>

DatetimeInit ==
    /\ IndexInit(InitialBuffer(1, TRUE))
    /\ ParserInit
    /\ AppIdle
    /\ adapter = [pc |-> "idle"]
    /\ SideIdle
    /\ \E self \in DatetimeEntries : datetime = [pc |-> "called", self |-> self]

DatetimeSpec == DatetimeInit /\ [][DatetimeNext]_vars

\* git_blame_incremental: Command::spawn starts the subprocess, or fails.
Spawn ==
    /\ adapter.pc = "spawn"
    /\ \/ adapter' = [adapter EXCEPT !.pc = "write_all", !.stdin = "open", !.child = "running"]
       \/ adapter' = [adapter EXCEPT !.pc = "returned",
                         !.returned = Some([result |-> "Err", at |-> "spawn",
                                            message |-> <<"Failed to start git blame process: ",
                                                          "No such file or directory">>])]

\* One write of write_all: a chunk goes into the pipe when there is room (the
\* call blocks while there is none), or the call fails, the reader being gone.
Write ==
    /\ adapter.pc = "write_all"
    /\ ~write_all_done(adapter.written, adapter.contents)
    /\ IF adapter.child = "exited"
       THEN adapter' = [adapter EXCEPT !.pc = "returned", !.stdin = "closed",
                          !.returned = Some([result |-> "Err", at |-> "write_all",
                                             message |-> <<"Failed to write to git blame stdin: ",
                                                           "Broken pipe">>])]
       ELSE /\ adapter.pipe < PipeCapacity
            /\ adapter' = [adapter EXCEPT !.written = @ + 1, !.pipe = @ + 1]

\* write_all returns Ok: git_blame_incremental goes on to child.wait_with_output().
WriteAllReturns ==
    /\ adapter.pc = "write_all"
    /\ write_all_done(adapter.written, adapter.contents)
    /\ adapter' = [adapter EXCEPT !.pc = "wait_with_output"]

\* wait_with_output begins by dropping the child's stdin handle; then it waits.
CloseStdin ==
    /\ adapter.pc = "wait_with_output"
    /\ adapter' = [adapter EXCEPT !.pc = "wait", !.stdin = "closed"]

\* wait_with_output returns once the subprocess has exited (or fails), and
\* git_blame_incremental returns what it makes of the Output.
WaitReturns ==
    /\ adapter.pc = "wait"
    /\ adapter.child = "exited"
    /\ \/ adapter' = [adapter EXCEPT !.pc = "returned",
                         !.returned = Some(AdapterResult(adapter.script))]
       \/ adapter' = [adapter EXCEPT !.pc = "returned",
                         !.returned = Some([result |-> "Err", at |-> "wait_with_output",
                                            message |-> <<"Failed to read git blame output: ",
                                                          "Interrupted">>])]

\* The subprocess takes a chunk out of the pipe.
ChildRead ==
    /\ adapter.child = "running"
    /\ adapter.script.reads
    /\ adapter.pipe > 0
    /\ adapter' = [adapter EXCEPT !.pipe = @ - 1, !.read = @ + 1]

\* The subprocess exits: one that reads its input, when it has met the end of
\* it; one that does not, at any time.
ChildExit ==
    /\ adapter.child = "running"
    /\ adapter.script.reads => (adapter.stdin = "closed" /\ adapter.pipe = 0)
    /\ adapter' = [adapter EXCEPT !.child = "exited"]

AdapterNext ==
    \/ Spawn /\ UNCHANGED <<blameVars, parseVars, datetime, sideVars, appVars>>
    \/ Write /\ UNCHANGED <<blameVars, parseVars, datetime, sideVars, appVars>>
    \/ WriteAllReturns /\ UNCHANGED <<blameVars, parseVars, datetime, sideVars, appVars>>
    \/ CloseStdin /\ UNCHANGED <<blameVars, parseVars, datetime, sideVars, appVars>>
    \/ WaitReturns /\ UNCHANGED <<blameVars, parseVars, datetime, sideVars, appVars>>
    \/ ChildRead /\ UNCHANGED <<blameVars, parseVars, datetime, sideVars, appVars>>
    \/ ChildExit /\ UNCHANGED <<blameVars, parseVars, datetime, sideVars, appVars>>

\* git_blame_incremental is called with contents of some length, and git does
\* one of the things it may do.
AdapterInit ==
    /\ IndexInit(InitialBuffer(1, TRUE))
    /\ ParserInit
    /\ AppIdle
    /\ datetime = [pc |-> "idle"]
    /\ SideIdle
    /\ \E contents \in 0..MaxContentLen, script \in ChildScripts :
          adapter = [pc |-> "spawn", contents |-> contents, written |-> 0, stdin |-> "none",
                     pipe |-> 0, read |-> 0, child |-> "none", script |-> script,
                     returned |-> None]

AdapterSpec == AdapterInit /\ [][AdapterNext]_vars

\* Two threads, each with a BufferBlame of its own, call update with one
\* repository handle and snapshots of one buffer.
Threads == {1, 2}
SharedBuffer == InitialBuffer(2, TRUE)

\* A caller on thread t calls update.
CallUpdate(t) ==
    /\ threads[t].pc \in {"idle", "returned"}
    /\ threads[t].calls < MaxCalls
    /\ threads' = [threads EXCEPT ![t].pc = "lock", ![t].calls = @ + 1]
    /\ UNCHANGED mutex

\* let repo = repo.lock(): the thread waits until the mutex is free and takes it.
Lock(t) ==
    /\ threads[t].pc = "lock"
    /\ mutex = None
    /\ mutex' = Some(t)
    /\ threads' = [threads EXCEPT ![t].pc = "blame_path"]

\* A plausible slip: an early return that leaves the mutex locked (the guard
\* forgotten with mem::forget, or a raw lock without a guard).
ReturnErrHolding(t, failing) ==
    /\ threads' = [threads EXCEPT ![t].pc = "returned",
                                   ![t].result = "Err(" \o failing \o ")"]
    /\ UNCHANGED mutex

\* `?` returns the error from update: the guard `repo` goes out of scope and
\* the mutex is unlocked.
ReturnErr(t, failing) ==
    /\ threads' = [threads EXCEPT ![t].pc = "returned",
                                   ![t].result = "Err(" \o failing \o ")"]
    /\ mutex' = None

\* repo.blame_path(path)?
BlamePath(t) ==
    /\ threads[t].pc = "blame_path"
    /\ \/ threads' = [threads EXCEPT ![t].pc = "blame_buffer"] /\ UNCHANGED mutex
       \/ ReturnErr(t, "blame_path")

\* blame.blame_buffer(buffer_text.as_bytes())?
BlameBuffer(t) ==
    /\ threads[t].pc = "blame_buffer"
    /\ \/ /\ \E blame_buffer \in BlameOutputs(SharedBuffer, {1}) :
                threads' = [threads EXCEPT ![t].pc = "build", ![t].blame_buffer = blame_buffer]
          /\ UNCHANGED mutex
       \/ ReturnErr(t, "blame_buffer")

\* The loop over the raw hunks, the two assignments to self, and Ok(()): the
\* guard goes out of scope at the end of update.
BuildAndReturn(t) ==
    /\ threads[t].pc = "build"
    /\ threads' = [threads EXCEPT ![t].pc = "returned", ![t].result = "Ok",
                                   ![t].tree = NewTree(threads[t].blame_buffer, SharedBuffer),
                                   ![t].last_buffer_version = Some(0),
                                   ![t].blame_buffer = <<>>]
    /\ mutex' = None

\* A step of thread t inside update, the mutex in its hands.
Run(t) == BlamePath(t) \/ BlameBuffer(t) \/ BuildAndReturn(t)

LockNext ==
    \/ (\E t \in Threads : CallUpdate(t)) /\ UNCHANGED <<blameVars, parseVars, callVars, query, appVars>>
    \/ (\E t \in Threads : Lock(t)) /\ UNCHANGED <<blameVars, parseVars, callVars, query, appVars>>
    \/ (\E t \in Threads : BlamePath(t)) /\ UNCHANGED <<blameVars, parseVars, callVars, query, appVars>>
    \/ (\E t \in Threads : BlameBuffer(t)) /\ UNCHANGED <<blameVars, parseVars, callVars, query, appVars>>
    \/ (\E t \in Threads : BuildAndReturn(t)) /\ UNCHANGED <<blameVars, parseVars, callVars, query, appVars>>

LockInit ==
    /\ IndexInit(SharedBuffer)
    /\ ParserInit
    /\ AppIdle
    /\ CallsIdle
    /\ query = [pc |-> "idle"]
    /\ mutex = None
    /\ threads = [t \in Threads |->
                    [pc |-> "idle", calls |-> 0, result |-> "none", blame_buffer |-> <<>>,
                     tree |-> <<>>, last_buffer_version |-> None]]

\* A blame invocation comes to an end, and parking_lot's mutex is handed to a
\* thread that keeps waiting for it (it is eventually fair).
LockFairSpec ==
    /\ LockInit
    /\ [][LockNext]_vars
    /\ \A t \in Threads : WF_lockVars(Run(t)) /\ SF_lockVars(Lock(t))

\* What blame_buffer can yield when the line count of some hunks is unknown:
\* lines_in_hunk() of such a hunk is usize::MAX.
SentinelOutputs(f) ==
    {[i \in 1..Len(blame_buffer) |->
         IF i \in unknown THEN [blame_buffer[i] EXCEPT !.lines_in_hunk = USIZE_MAX]
         ELSE blame_buffer[i]] :
       blame_buffer \in BlameOutputs(f, {1}), unknown \in SUBSET (1..MaxLines)}

\* Updates from a source that does not know the line count of every hunk.
SentinelNext ==
    \/ /\ \E blame_buffer \in SentinelOutputs(frags) : UpdateOk(blame_buffer)
       /\ UNCHANGED <<parseVars, callVars, sideVars, appVars>>
    \/ /\ \E failing \in {"blame_path", "blame_buffer"} : UpdateErr(failing)
       /\ UNCHANGED <<parseVars, callVars, sideVars, appVars>>

SentinelSpec == Init /\ [][SentinelNext]_vars

\* What blame_buffer can yield when libgit2 hands out a signature per hunk:
\* hunks of commit 1 carry its signature under the name "A" or "A2"; commit 3
\* has a time that cannot be built.
CacheOutputs(f) ==
    {[i \in 1..Len(blame_buffer) |->
         IF i \in renamed /\ blame_buffer[i].final_commit_id = 1
         THEN [blame_buffer[i] EXCEPT !.final_signature.name = Some("A2")]
         ELSE blame_buffer[i]] :
       blame_buffer \in BlameOutputs(f, {1, 3}), renamed \in SUBSET (1..MaxLines)}

\* Updates whose passes meet several hunks of one commit.
CacheNext ==
    \/ /\ \E blame_buffer \in CacheOutputs(frags) : UpdateOk(blame_buffer)
       /\ UNCHANGED <<parseVars, callVars, sideVars, appVars>>
    \/ /\ \E failing \in {"blame_path", "blame_buffer"} : UpdateErr(failing)
       /\ UNCHANGED <<parseVars, callVars, sideVars, appVars>>

CacheSpec == Init /\ [][CacheNext]_vars

\* The snapshot the queries of one caller are made against.
QueryBuffer == InitialBuffer(3, TRUE)

\* The first item after position `from` whose summary passes the filter:
\* cursor.next(buffer); 0 when there is none.
CursorNext(t, from, range, f) ==
    LET later == {j \in (from + 1)..Len(t) : FilterNode(ItemSummary(t[j]), range, f)}
    IN  IF later = {} THEN 0 ELSE SetMin(later)

\* hunks_in_row_range is called: the two anchors are made and the iterator is
\* returned; nothing has been looked at yet.
StartQuery(row_start, row_end) ==
    /\ query.pc = "idle"
    /\ query' = [pc |-> "iterating", rows |-> <<row_start, row_end>>,
                 range |-> [start |-> anchor_before(frags, row_start),
                            end |-> anchor_after(frags, row_end)],
                 index |-> 0, yielded |-> <<>>, first |-> None]
    /\ UNCHANGED <<tree, last_buffer_version>>

\* A plausible slip: the cursor takes each item it yields out of the tree.
QueryNextItemTaking ==
    /\ query.pc = "iterating"
    /\ LET j == CursorNext(tree, query.index, query.range, frags)
       IN  IF j = 0
           THEN /\ query' = [query EXCEPT !.pc = "done",
                                !.first = IF @ = None THEN Some(query.yielded) ELSE @]
                /\ UNCHANGED <<tree, last_buffer_version>>
           ELSE /\ query' = [query EXCEPT !.index = j - 1,
                                !.yielded = Append(@, RowHunk(tree[j], frags))]
                /\ tree' = SubSeq(tree, 1, j - 1) \o SubSeq(tree, j + 1, Len(tree))
                /\ UNCHANGED last_buffer_version

\* The caller asks the iterator for its next hunk: the cursor moves on to the
\* next item that passes, which is given out in rows, or the iterator ends.
QueryNextItem ==
    /\ query.pc = "iterating"
    /\ LET j == CursorNext(tree, query.index, query.range, frags)
       IN  IF j = 0
           THEN query' = [query EXCEPT !.pc = "done",
                             !.first = IF @ = None THEN Some(query.yielded) ELSE @]
           ELSE query' = [query EXCEPT !.index = j,
                             !.yielded = Append(@, RowHunk(tree[j], frags))]
    /\ UNCHANGED <<tree, last_buffer_version>>

\* The caller drops the iterator, used up or not, and issues the same query again.
QueryAgain ==
    /\ query.pc \in {"iterating", "done"}
    /\ query' = [query EXCEPT !.pc = "iterating", !.index = 0, !.yielded = <<>>]
    /\ UNCHANGED <<tree, last_buffer_version>>

\* The caller drops the iterator and is done with the query.
DropQuery ==
    /\ query.pc \in {"iterating", "done", "filtered"}
    /\ query' = [pc |-> "idle"]
    /\ UNCHANGED <<tree, last_buffer_version>>

\* Queries of one index between its updates. An iterator borrows the index, so
\* update (&mut self) runs only while no iterator is alive.
QueryNext ==
    \/ /\ query.pc = "idle"
       /\ Update(CommittedOids)
       /\ UNCHANGED <<parseVars, callVars, sideVars, appVars>>
    \/ /\ \E r \in RowRanges(frags) : StartQuery(r[1], r[2])
       /\ UNCHANGED <<frags, version, last, built, parseVars, callVars, lockVars, appVars>>
    \/ QueryNextItem /\ UNCHANGED <<frags, version, last, built, parseVars, callVars, lockVars, appVars>>
    \/ QueryAgain /\ UNCHANGED <<frags, version, last, built, parseVars, callVars, lockVars, appVars>>
    \/ DropQuery /\ UNCHANGED <<frags, version, last, built, parseVars, callVars, lockVars, appVars>>

QueryInit ==
    /\ IndexInit(QueryBuffer)
    /\ ParserInit
    /\ AppIdle
    /\ CallsIdle
    /\ SideIdle

QuerySpec == QueryInit /\ [][QueryNext]_vars

\* The buffer that is edited by insertions and deletions: two lines.
DeleteBuffer(trailingNl) == InitialBuffer(2, trailingNl)

\* The buffer's owner deletes the text between two offsets: its characters
\* stay in place, no longer visible.
DeleteRange(f, lo, hi) ==
    [i \in 1..Len(f) |->
        IF f[i].vis /\ VisCount(f, i) > lo /\ VisCount(f, i) <= hi
        THEN [f[i] EXCEPT !.vis = FALSE] ELSE f[i]]

Delete ==
    /\ built # None
    /\ version < MaxDeleteEdits
    /\ \E lo \in 0..TextLen(frags), hi \in 0..TextLen(frags) :
          /\ lo < hi
          /\ frags' = DeleteRange(frags, lo, hi)
    /\ last' = [op |-> "delete", result |-> "Ok", repeated |-> FALSE]
    /\ version' = version + 1
    /\ UNCHANGED <<tree, last_buffer_version, built>>

\* The buffer's owner inserts a line "a\n" at an offset, within a line or between lines.
Insert ==
    /\ built # None
    /\ version < MaxDeleteEdits
    /\ \E offset \in 0..TextLen(frags) :
          frags' = InsertAt(frags, offset, NewLines(frags, 1))
    /\ last' = [op |-> "insert", result |-> "Ok", repeated |-> FALSE]
    /\ version' = version + 1
    /\ UNCHANGED <<tree, last_buffer_version, built>>

\* An index is built, and its buffer is then edited by insertions and deletions.
DeleteNext ==
    \/ /\ version = 0
       /\ \E blame_buffer \in BlameOutputs(frags, CommittedOids) : UpdateOk(blame_buffer)
       /\ UNCHANGED <<parseVars, callVars, sideVars, appVars>>
    \/ Delete /\ UNCHANGED <<parseVars, callVars, sideVars, appVars>>
    \/ Insert /\ UNCHANGED <<parseVars, callVars, sideVars, appVars>>

DeleteInit ==
    /\ \E trailingNl \in BOOLEAN : IndexInit(DeleteBuffer(trailingNl))
    /\ ParserInit
    /\ AppIdle
    /\ CallsIdle
    /\ SideIdle

DeleteSpec == DeleteInit /\ [][DeleteNext]_vars

\* ------------------------------------------------ sum_tree::SumTree, in shapes
\* The ways to cut n items in a row into consecutive non-empty groups.
RECURSIVE Compositions(_)
Compositions(n) ==
    IF n = 0 THEN {<<>>}
    ELSE UNION {{<<k>> \o rest : rest \in Compositions(n - k)} : k \in 1..n}

\* The summary of a node: the summaries below it, added up from left to right.
RECURSIVE SummaryOf(_, _)
SummaryOf(summaries, f) ==
    IF Len(summaries) = 1 THEN summaries[1]
    ELSE add_summary(SummaryOf(SubSeq(summaries, 1, Len(summaries) - 1), f),
                     summaries[Len(summaries)], f)

\* The places of the groups of the sizes `sizes` in a row: first and last index.
RECURSIVE Spans(_, _)
Spans(sizes, from) ==
    IF sizes = <<>> THEN <<>>
    ELSE <<[lo |-> from, hi |-> from + sizes[1] - 1]>> \o Spans(Tail(sizes), from + sizes[1])

\* tree.filter(...) over a tree three levels high: the items t lie in leaves of
\* the sizes `leaves`, the leaves under nodes of the sizes `nodes`, those under
\* the root. The cursor descends into a node or a leaf only when its summary
\* passes and skips it whole otherwise, and yields the items of the leaves it
\* reaches whose own summary passes. Summaries are those of the snapshot g the
\* tree was built against; the filter compares in the snapshot f of the query.
FilterCursor(t, leaves, nodes, range, f, g) ==
    LET leafSpans == Spans(leaves, 1)
        nodeSpans == Spans(nodes, 1)
        itemSummaries == [i \in 1..Len(t) |-> ItemSummary(t[i])]
        leafSummaries == [k \in 1..Len(leaves) |->
                            SummaryOf(SubSeq(itemSummaries, leafSpans[k].lo, leafSpans[k].hi), g)]
        nodeSummaries == [j \in 1..Len(nodes) |->
                            SummaryOf(SubSeq(leafSummaries, nodeSpans[j].lo, nodeSpans[j].hi), g)]
        nodePasses == [j \in 1..Len(nodes) |-> FilterNode(nodeSummaries[j], range, f)]
        leafPasses == [k \in 1..Len(leaves) |-> FilterNode(leafSummaries[k], range, f)]
        reached == {i \in 1..Len(t) :
                      \E k \in 1..Len(leaves), j \in 1..Len(nodes) :
                         /\ leafSpans[k].lo <= i /\ i <= leafSpans[k].hi
                         /\ nodeSpans[j].lo <= k /\ k <= nodeSpans[j].hi
                         /\ nodePasses[j]
                         /\ leafPasses[k]
                         /\ FilterNode(itemSummaries[i], range, f)}
    IN  [n \in 1..Cardinality(reached) |->
            t[CHOOSE i \in reached : Cardinality({h \in reached : h < i}) = n - 1]]

\* hunks_intersecting_range over such a tree, collected.
TreeFilter(leaves, nodes, start, end) ==
    /\ built # None
    /\ query.pc = "idle"
    /\ LET range == [start |-> start, end |-> end]
           kept == FilterCursor(tree, leaves, nodes, range, frags, built[1].frags)
       IN  query' = [pc |-> "filtered", leaves |-> leaves, nodes |-> nodes, range |-> range,
                     emitted |-> [i \in 1..Len(kept) |-> RowHunk(kept[i], frags)]]
    /\ UNCHANGED <<blameVars, lockVars>>

\* An index of hunks of one commit, laid out in every shape and asked about
\* every range of positions.
TreeNext ==
    \/ /\ query.pc = "idle"
       /\ \E blame_buffer \in BlameOutputs(frags, {1}) : UpdateOk(blame_buffer)
       /\ UNCHANGED <<parseVars, callVars, sideVars, appVars>>
    \/ /\ query.pc = "idle"
       /\ \E leaves \in Compositions(Len(tree)) :
             \E nodes \in Compositions(Len(leaves)) :
                \E start \in Anchors(frags), end \in Anchors(frags) :
                   /\ AnchorCmp(start, end, frags) <= 0
                   /\ TreeFilter(leaves, nodes, start, end)
       /\ UNCHANGED <<parseVars, callVars, appVars>>
    \/ /\ query.pc = "filtered"
       /\ DropQuery
       /\ UNCHANGED <<frags, version, last, built, parseVars, callVars, lockVars, appVars>>

TreeInit ==
    /\ IndexInit(InitialBuffer(MaxTreeLines, TRUE))
    /\ ParserInit
    /\ AppIdle
    /\ CallsIdle
    /\ SideIdle

TreeSpec == TreeInit /\ [][TreeNext]_vars

\* ------------------------------------------ both pipes of git_blame_incremental
\* A plausible slip: child.wait() for wait_with_output: the output is read only
\* once the subprocess has exited.
DrainStdoutAfterExit ==
    /\ adapter.pc = "wait"
    /\ adapter.child = "exited"
    /\ adapter.outpipe > 0
    /\ adapter' = [adapter EXCEPT !.outpipe = @ - 1, !.collected = @ + 1]

\* wait_with_output reads the subprocess's standard output to its end while it
\* waits: a chunk is taken out of the pipe.
DrainStdout ==
    /\ adapter.pc = "wait"
    /\ adapter.outpipe > 0
    /\ adapter' = [adapter EXCEPT !.outpipe = @ - 1, !.collected = @ + 1]

\* wait_with_output returns: the subprocess has exited and its output has been
\* read to the end.
WaitReturnsOutput ==
    /\ adapter.pc = "wait"
    /\ adapter.child = "exited"
    /\ adapter.outpipe = 0
    /\ \/ adapter' = [adapter EXCEPT !.pc = "returned",
                         !.returned = Some(AdapterResult(adapter.script))]
       \/ adapter' = [adapter EXCEPT !.pc = "returned",
                         !.returned = Some([result |-> "Err", at |-> "wait_with_output",
                                            message |-> <<"Failed to read git blame output: ",
                                                          "Interrupted">>])]

\* The subprocess has read its standard input to the end.
ChildAtEof == adapter.stdin = "closed" /\ adapter.pipe = 0

\* The subprocess, its input read to the end, writes a chunk of output: the
\* write blocks while the pipe to the adapter is full.
ChildWrite ==
    /\ adapter.child = "running"
    /\ ChildAtEof
    /\ adapter.out_written < adapter.out_len
    /\ adapter.outpipe < PipeCapacity
    /\ adapter' = [adapter EXCEPT !.out_written = @ + 1, !.outpipe = @ + 1]

\* The subprocess exits, its input read and its output written.
ChildExitDone ==
    /\ adapter.child = "running"
    /\ ChildAtEof
    /\ adapter.out_written = adapter.out_len
    /\ adapter' = [adapter EXCEPT !.child = "exited"]

PipeNext ==
    \/ Spawn /\ UNCHANGED <<blameVars, parseVars, datetime, sideVars, appVars>>
    \/ Write /\ UNCHANGED <<blameVars, parseVars, datetime, sideVars, appVars>>
    \/ WriteAllReturns /\ UNCHANGED <<blameVars, parseVars, datetime, sideVars, appVars>>
    \/ CloseStdin /\ UNCHANGED <<blameVars, parseVars, datetime, sideVars, appVars>>
    \/ DrainStdout /\ UNCHANGED <<blameVars, parseVars, datetime, sideVars, appVars>>
    \/ WaitReturnsOutput /\ UNCHANGED <<blameVars, parseVars, datetime, sideVars, appVars>>
    \/ ChildRead /\ UNCHANGED <<blameVars, parseVars, datetime, sideVars, appVars>>
    \/ ChildWrite /\ UNCHANGED <<blameVars, parseVars, datetime, sideVars, appVars>>
    \/ ChildExitDone /\ UNCHANGED <<blameVars, parseVars, datetime, sideVars, appVars>>

\* git_blame_incremental is called with contents of some length; git reads its
\* input to the end, then writes output of some length, then exits.
PipeInit ==
    /\ IndexInit(InitialBuffer(1, TRUE))
    /\ ParserInit
    /\ AppIdle
    /\ datetime = [pc |-> "idle"]
    /\ SideIdle
    /\ \E contents \in 0..MaxContentLen, out_len \in 0..MaxOutputLen,
          script \in {s \in ChildScripts : s.reads} :
          adapter = [pc |-> "spawn", contents |-> contents, written |-> 0, stdin |-> "none",
                     pipe |-> 0, read |-> 0, child |-> "none", script |-> script,
                     returned |-> None,
                     out_len |-> out_len, out_written |-> 0, outpipe |-> 0, collected |-> 0]

\* The adapter and the subprocess are two processes the system keeps running:
\* a step of either that stays possible is taken.
PipeFairSpec ==
    /\ PipeInit
    /\ [][PipeNext]_vars
    /\ WF_adapter(Spawn) /\ WF_adapter(Write) /\ WF_adapter(WriteAllReturns)
    /\ WF_adapter(CloseStdin) /\ WF_adapter(DrainStdout) /\ WF_adapter(WaitReturnsOutput)
    /\ WF_adapter(ChildRead) /\ WF_adapter(ChildWrite) /\ WF_adapter(ChildExitDone)

\* Assistant::NAMESPACE.
NAMESPACE == "assistant"

\* Assistant::set_enabled: the Assistant and the CommandPaletteFilter after the
\* call. No statement of it assigns self.enabled.
set_enabled(self, enabled, filter) ==
    IF self.enabled = enabled
    THEN [self |-> self, filter |-> filter]
    ELSE IF ~enabled
    THEN [self |-> self,
          filter |-> [filter EXCEPT !.hidden_namespaces = @ \cup {NAMESPACE}]]
    ELSE [self |-> self,
          filter |-> [filter EXCEPT !.hidden_namespaces = @ \ {NAMESPACE}]]

\* init: the namespace is hidden, then set_enabled is called with the button
\* setting; the observer of the settings store is registered.
AssistantInit(button) ==
    /\ cx.pc = "new"
    /\ LET hidden == [cx.filter EXCEPT !.hidden_namespaces = @ \cup {NAMESPACE}]
           after == set_enabled(cx.assistant, button, hidden)
       IN  cx' = [cx EXCEPT !.pc = "observing", !.assistant = after.self,
                            !.filter = after.filter, !.calls = Append(@, button)]

\* The observer of the settings store: set_enabled with the button setting.
SettingsChanged(button) ==
    /\ cx.pc = "observing"
    /\ Len(cx.calls) <= MaxSettingsChanges
    /\ LET after == set_enabled(cx.assistant, button, cx.filter)
       IN  cx' = [cx EXCEPT !.assistant = after.self, !.filter = after.filter,
                            !.calls = Append(@, button)]

AssistantNext ==
    \/ (\E button \in BOOLEAN : AssistantInit(button))
          /\ UNCHANGED <<blameVars, parseVars, callVars, sideVars, db, tx, rooms, tasks>>
    \/ (\E button \in BOOLEAN : SettingsChanged(button))
          /\ UNCHANGED <<blameVars, parseVars, callVars, sideVars, db, tx, rooms, tasks>>

\* An application before init: Assistant::default(), and a filter in which
\* other features may have hidden their namespaces.
AssistantStart ==
    /\ IndexInit(InitialBuffer(1, TRUE))
    /\ ParserInit
    /\ CallsIdle
    /\ SideIdle
    /\ db = [pc |-> "idle"]
    /\ tx = [pc |-> "idle"]
    /\ rooms = <<>>
    /\ tasks = <<>>
    /\ \E others \in SUBSET {"copilot", "vim"} :
          cx = [pc |-> "new", assistant |-> [enabled |-> FALSE],
                filter |-> [hidden_namespaces |-> others], calls |-> <<>>]

AssistantSpec == AssistantStart /\ [][AssistantNext]_vars

\* ------------------------------------------------------------- the database
\* The users of the calls, and the hashes of their access tokens.
UserIds == {1, 2, 3}
Hashes == {"h1", "h2"}

\* A statement of a closure that fails, and how: with a serialization failure
\* (DbErr::Exec or DbErr::Query of SQLSTATE 40001) or with another database
\* error. Statement 0 is no statement: nothing fails.
NoFault == [at |-> 0, code |-> "none"]
Faults == {NoFault} \cup {[at |-> k, code |-> c] : k \in 1..3, c \in {"40001", "other"}}
Fails(fault, statement) == fault.at = statement

\* What a closure hands back to transact: its result, whether it has committed
\* its transaction, the rows the transaction sees at its end, and the id
\* sequence of access_token (which a rollback does not take back).
Outcome(result, value, committed, view, id_seq) ==
    [result |-> result, value |-> value, committed |-> committed, view |-> view,
     id_seq |-> id_seq]

\* A plausible slip: a closure commits what it has done before it fails.
FailedCommitting(fault, view, id_seq) ==
    Outcome(IF fault.code = "40001" THEN "40001" ELSE "Err", "database error", TRUE,
            view, id_seq)

\* A statement fails and `?` returns its error: the transaction is dropped.
Failed(fault, view, id_seq) ==
    Outcome(IF fault.code = "40001" THEN "40001" ELSE "Err", "database error", FALSE,
            view, id_seq)

\* A plausible slip: the condition of the update leaves out the direction of
\* the request (action_and_where(Accepted.eq(false))).
insert_on_conflict_any_direction(contact, id_a, id_b, a_to_b) ==
    LET conflict == {r \in contact : r.user_id_a = id_a /\ r.user_id_b = id_b}
        row == CHOOSE r \in conflict : TRUE
    IN  IF conflict = {}
        THEN [rows_affected |-> 1,
              contact |-> contact \cup {[user_id_a |-> id_a, user_id_b |-> id_b,
                                         a_to_b |-> a_to_b, accepted |-> FALSE,
                                         should_notify |-> TRUE]}]
        ELSE IF row.accepted = FALSE
        THEN [rows_affected |-> 1,
              contact |-> (contact \ {row})
                            \cup {[row EXCEPT !.accepted = TRUE, !.should_notify = FALSE]}]
        ELSE [rows_affected |-> 0, contact |-> contact]

\* contact::Entity::insert(..).on_conflict(..).exec_without_returning: the
\* contact table after the statement, and the number of rows it has affected.
\* (user_id_a, user_id_b) is a unique key of the table.
insert_on_conflict(contact, id_a, id_b, a_to_b) ==
    LET conflict == {r \in contact : r.user_id_a = id_a /\ r.user_id_b = id_b}
        row == CHOOSE r \in conflict : TRUE
    IN  IF conflict = {}
        THEN [rows_affected |-> 1,
              contact |-> contact \cup {[user_id_a |-> id_a, user_id_b |-> id_b,
                                         a_to_b |-> a_to_b, accepted |-> FALSE,
                                         should_notify |-> TRUE]}]
        ELSE IF /\ row.accepted = FALSE
                /\ \/ row.a_to_b = a_to_b /\ row.user_id_a = id_b
                   \/ row.a_to_b # a_to_b /\ row.user_id_a = id_a
        THEN [rows_affected |-> 1,
              contact |-> (contact \ {row})
                            \cup {[row EXCEPT !.accepted = TRUE, !.should_notify = FALSE]}]
        ELSE [rows_affected |-> 0, contact |-> contact]

\* The closure of send_contact_request.
send_contact_request(view, id_seq, sender_id, receiver_id, fault) ==
    LET id_a == IF sender_id < receiver_id THEN sender_id ELSE receiver_id
        id_b == IF sender_id < receiver_id THEN receiver_id ELSE sender_id
        a_to_b == sender_id < receiver_id
        inserted == insert_on_conflict(view.contact, id_a, id_b, a_to_b)
        after == [view EXCEPT !.contact = inserted.contact]
    IN  IF Fails(fault, 1) THEN Failed(fault, view, id_seq)
        ELSE IF inserted.rows_affected = 1
        THEN IF Fails(fault, 2) THEN Failed(fault, after, id_seq)
             ELSE Outcome("Ok", "()", TRUE, after, id_seq)
        ELSE Outcome("Err", "contact already requested", FALSE, after, id_seq)

\* The closure of has_contact.
has_contact(view, id_seq, user_id_1, user_id_2, fault) ==
    LET id_a == IF user_id_1 < user_id_2 THEN user_id_1 ELSE user_id_2
        id_b == IF user_id_1 < user_id_2 THEN user_id_2 ELSE user_id_1
    IN  IF Fails(fault, 1) THEN Failed(fault, view, id_seq)
        ELSE Outcome("Ok",
                     \E r \in view.contact :
                        r.user_id_a = id_a /\ r.user_id_b = id_b /\ r.accepted = TRUE,
                     FALSE, view, id_seq)

\* The rows of a user in access_token, oldest first (the table is kept in the
\* order of its ids, which come from a sequence that only grows).
TokensOf(access_token, user_id) == SelectSeq(access_token, LAMBDA r : r.user_id = user_id)

\* .limit(10000) of the subquery of create_access_token_hash.
SubqueryLimit == 10000

\* A plausible slip: the subquery skips one row less than max_access_token_count.
delete_many_off_by_one(access_token, user_id, max_access_token_count) ==
    LET own == TokensOf(access_token, user_id)
        n == Len(own)
        last_pos == n - (max_access_token_count - 1)
        first_pos == IF last_pos - SubqueryLimit + 1 < 1 THEN 1
                     ELSE last_pos - SubqueryLimit + 1
    IN  IF last_pos < 1 THEN access_token
        ELSE SelectSeq(access_token,
                       LAMBDA r : ~(/\ r.user_id = user_id
                                    /\ own[first_pos].id <= r.id
                                    /\ r.id <= own[last_pos].id))

\* access_token::Entity::delete_many().filter(Id.in_subquery(..)): the subquery
\* orders the user's rows by id, newest first, skips max_access_token_count of
\* them and yields the ids of the next 10000; the rows of these ids are deleted.
delete_many(access_token, user_id, max_access_token_count) ==
    LET own == TokensOf(access_token, user_id)
        n == Len(own)
        last_pos == n - max_access_token_count
        first_pos == IF last_pos - SubqueryLimit + 1 < 1 THEN 1
                     ELSE last_pos - SubqueryLimit + 1
    IN  IF last_pos < 1 THEN access_token
        ELSE SelectSeq(access_token,
                       LAMBDA r : ~(/\ r.user_id = user_id
                                    /\ own[first_pos].id <= r.id
                                    /\ r.id <= own[last_pos].id))

\* The closure of create_access_token_hash.
create_access_token_hash(view, id_seq, user_id, access_token_hash, max, fault) ==
    LET inserted == [view EXCEPT !.access_token =
                        Append(@, [id |-> id_seq + 1, user_id |-> user_id,
                                   hash |-> access_token_hash])]
        deleted == [inserted EXCEPT !.access_token =
                        delete_many(@, user_id, max)]
    IN  IF Fails(fault, 1) THEN Failed(fault, view, id_seq)
        ELSE IF Fails(fault, 2) THEN Failed(fault, inserted, id_seq + 1)
        ELSE IF Fails(fault, 3) THEN Failed(fault, deleted, id_seq + 1)
        ELSE Outcome("Ok", "()", TRUE, deleted, id_seq + 1)

\* Vec::reverse, for a list in the order of the ids.
Newest(list) == [i \in 1..Len(list) |-> list[Len(list) + 1 - i]]

\* The closure of get_access_token_hashes.
get_access_token_hashes(view, id_seq, user_id, fault) ==
    IF Fails(fault, 1) THEN Failed(fault, view, id_seq)
    ELSE LET own == TokensOf(view.access_token, user_id)
         IN  Outcome("Ok", Newest([i \in 1..Len(own) |-> own[i].hash]), FALSE, view, id_seq)

\* The statements of the closure of a method, its commit included.
Statements(method) ==
    CASE method = "send_contact_request" -> 2
      [] method = "has_contact" -> 1
      [] method = "create_access_token_hash" -> 3
      [] method = "get_access_token_hashes" -> 1

\* f(tx) of transact: the closure of the method called, on a transaction.
Closure(call, view, id_seq, fault) ==
    CASE call.method = "send_contact_request" ->
            send_contact_request(view, id_seq, call.sender_id, call.receiver_id, fault)
      [] call.method = "has_contact" ->
            has_contact(view, id_seq, call.user_id_1, call.user_id_2, fault)
      [] call.method = "create_access_token_hash" ->
            create_access_token_hash(view, id_seq, call.user_id, call.access_token_hash,
                                     call.max_access_token_count, fault)
      [] call.method = "get_access_token_hashes" ->
            get_access_token_hashes(view, id_seq, call.user_id, fault)

\* A Database method is called: transact is entered.
Call(call) ==
    /\ tx.pc \in {"ready", "returned"}
    /\ tx.calls < MaxDbCalls
    /\ tx' = [pc |-> "begin", call |-> call, view |-> None, outcomes |-> <<>>,
              conflicts |-> 0, returned |-> None, calls |-> tx.calls + 1]
    /\ UNCHANGED db

\* self.pool.begin().await? (and SET TRANSACTION ISOLATION LEVEL SERIALIZABLE):
\* a new transaction, which sees the committed rows, or transact returns the error.
Begin(ok) ==
    /\ tx.pc = "begin"
    /\ IF ok
       THEN tx' = [tx EXCEPT !.pc = "closure", !.view = Some(db.tables)]
       ELSE tx' = [tx EXCEPT !.pc = "returned",
                             !.returned = Some([result |-> "Err", value |-> "begin failed"])]
    /\ UNCHANGED db

\* The arm of transact's match that does not return: the closure has failed
\* with a serialization failure.
Retries(outcome) == outcome.result = "40001"

\* match f(tx).await: the closure runs on the transaction, commits it or drops
\* it, and transact returns its result or goes round the loop.
RunClosure(fault) ==
    /\ tx.pc = "closure"
    /\ fault.at <= Statements(tx.call.method)
    /\ fault.code = "40001" => tx.conflicts < MaxConflicts
    /\ LET outcome == Closure(tx.call, tx.view[1], db.id_seq, fault)
       IN  /\ db' = [tables |-> IF outcome.committed THEN outcome.view ELSE db.tables,
                     id_seq |-> outcome.id_seq]
           /\ IF Retries(outcome)
              THEN tx' = [tx EXCEPT !.pc = "begin", !.conflicts = @ + 1, !.view = None,
                                    !.outcomes = Append(@, outcome.result)]
              ELSE tx' = [tx EXCEPT !.pc = "returned", !.view = None,
                                    !.outcomes = Append(@, outcome.result),
                                    !.returned = Some([result |-> outcome.result,
                                                       value |-> outcome.value])]

\* No row, and the states of the database a call of transact can find.
NoRows == [contact |-> {}, access_token |-> <<>>]
Pending(id_a, id_b, a_to_b) ==
    [user_id_a |-> id_a, user_id_b |-> id_b, a_to_b |-> a_to_b, accepted |-> FALSE,
     should_notify |-> TRUE]
TransactTables ==
    {NoRows,
     [NoRows EXCEPT !.contact = {Pending(1, 2, TRUE)}],
     [NoRows EXCEPT !.contact = {Pending(1, 2, FALSE)}],
     [NoRows EXCEPT !.access_token = <<[id |-> 1, user_id |-> 1, hash |-> "h1"]>>]}

\* The calls of the Database methods, one of each kind and direction.
TransactCalls ==
    {[method |-> "send_contact_request", sender_id |-> 1, receiver_id |-> 2],
     [method |-> "send_contact_request", sender_id |-> 2, receiver_id |-> 1],
     [method |-> "has_contact", user_id_1 |-> 2, user_id_2 |-> 1],
     [method |-> "create_access_token_hash", user_id |-> 1, access_token_hash |-> "h2",
      max_access_token_count |-> 1],
     [method |-> "get_access_token_hashes", user_id |-> 1]}

TransactNext ==
    \/ (tx.calls = 0 /\ \E call \in TransactCalls : Call(call))
          /\ UNCHANGED <<blameVars, parseVars, callVars, sideVars, cx, rooms, tasks>>
    \/ (\E ok \in BOOLEAN : Begin(ok))
          /\ UNCHANGED <<blameVars, parseVars, callVars, sideVars, cx, rooms, tasks>>
    \/ (\E fault \in Faults : RunClosure(fault))
          /\ UNCHANGED <<blameVars, parseVars, callVars, sideVars, cx, rooms, tasks>>

\* A database with the rows given, after a number of calls.
DbInit(tables, calls) ==
    /\ IndexInit(InitialBuffer(1, TRUE))
    /\ ParserInit
    /\ CallsIdle
    /\ SideIdle
    /\ cx = [pc |-> "idle"]
    /\ rooms = <<>>
    /\ tasks = <<>>
    /\ db = [tables |-> tables, id_seq |-> Len(tables.access_token)]
    /\ tx = [pc |-> "ready", calls |-> calls]

TransactInit == \E tables \in TransactTables : DbInit(tables, 0)

\* The task that runs transact is polled until it returns; the serialization
\* failures of a call come to an end (there are MaxConflicts of them at most).
TransactFairSpec ==
    /\ TransactInit
    /\ [][TransactNext]_vars
    /\ WF_dbVars(\E ok \in BOOLEAN : Begin(ok))
    /\ WF_dbVars(\E fault \in Faults : RunClosure(fault))

\* Contact requests between any two different users, and questions about them.
ContactCalls ==
    {[method |-> "send_contact_request", sender_id |-> p[1], receiver_id |-> p[2]] :
        p \in {q \in UserIds \X UserIds : q[1] # q[2]}}
    \cup {[method |-> "has_contact", user_id_1 |-> 3, user_id_2 |-> 1]}

ContactNext ==
    \/ (tx.pc \in {"ready", "returned"} /\ \E call \in ContactCalls : Call(call))
          /\ UNCHANGED <<blameVars, parseVars, callVars, sideVars, cx, rooms, tasks>>
    \/ (\E ok \in BOOLEAN : Begin(ok))
          /\ UNCHANGED <<blameVars, parseVars, callVars, sideVars, cx, rooms, tasks>>
    \/ (\E fault \in Faults : RunClosure(fault))
          /\ UNCHANGED <<blameVars, parseVars, callVars, sideVars, cx, rooms, tasks>>

ContactSpec == DbInit(NoRows, 0) /\ [][ContactNext]_vars

\* The rows of a user who has been given SubqueryLimit + 2 tokens by calls of
\* create_access_token_hash with a max_access_token_count as large.
LongStanding ==
    [NoRows EXCEPT !.access_token =
        [i \in 1..(SubqueryLimit + 2) |-> [id |-> i, user_id |-> 1, hash |-> "h1"]]]

\* Tokens created for a user, with small and large limits, and for another
\* user, and the lists asked for.
TokenCalls ==
    {[method |-> "create_access_token_hash", user_id |-> 1, access_token_hash |-> h,
      max_access_token_count |-> max] :
        h \in Hashes, max \in {1, 2, SubqueryLimit + 2}}
    \cup {[method |-> "create_access_token_hash", user_id |-> 2, access_token_hash |-> "h1",
           max_access_token_count |-> 2]}
    \cup {[method |-> "get_access_token_hashes", user_id |-> u] : u \in {1, 2}}

TokenNext ==
    \/ (tx.pc \in {"ready", "returned"} /\ tx.calls < MaxTokenCalls
            /\ \E call \in TokenCalls : Call(call))
          /\ UNCHANGED <<blameVars, parseVars, callVars, sideVars, cx, rooms, tasks>>
    \/ (\E ok \in BOOLEAN : Begin(ok))
          /\ UNCHANGED <<blameVars, parseVars, callVars, sideVars, cx, rooms, tasks>>
    \/ (\E fault \in Faults : RunClosure(fault))
          /\ UNCHANGED <<blameVars, parseVars, callVars, sideVars, cx, rooms, tasks>>

\* No token yet, or a user of long standing, for whom one call more is made.
TokenInit == DbInit(NoRows, 0) \/ DbInit(LongStanding, MaxTokenCalls - 1)

TokenSpec == TokenInit /\ [][TokenNext]_vars

\* ------------------------------------------------------------ room mutexes
\* The tasks that commit room transactions, and the rooms.
Tasks == {1, 2, 3}
RoomIds == {1, 2}

\* A plausible slip: one mutex is shared by all rooms.
RoomKeyShared(room_id) == 1

\* The key under which commit_room_transaction looks up the mutex of a room.
RoomKey(room_id) == room_id

\* Mutex::default(): held by no task, no task waits for it.
NewMutex == [holder |-> None, waiters |-> <<>>]

\* self.rooms.entry(room_id).or_default(): the map with a mutex under the key.
or_default(map, key) ==
    [k \in DOMAIN map \cup {key} |-> IF k \in DOMAIN map THEN map[k] ELSE NewMutex]

\* commit_room_transaction is called: the mutex of the room is looked up, or
\* made, and the Arc cloned.
CommitRoomTransaction(t, room_id) ==
    /\ tasks[t].pc = "idle"
    /\ tasks[t].calls < MaxRoomCommits
    /\ rooms' = or_default(rooms, RoomKey(room_id))
    /\ tasks' = [tasks EXCEPT ![t] = [pc |-> "lock_owned", room_id |-> room_id,
                                      lock |-> RoomKey(room_id), calls |-> @.calls + 1,
                                      result |-> "none"]]

\* lock.lock_owned().await, polled: the task takes the mutex if it is free, or
\* joins the queue of the tasks that wait for it.
LockOwned(t) ==
    /\ tasks[t].pc = "lock_owned"
    /\ LET lock == tasks[t].lock
       IN  IF rooms[lock].holder = None
           THEN /\ rooms' = [rooms EXCEPT ![lock].holder = Some(t)]
                /\ tasks' = [tasks EXCEPT ![t].pc = "commit"]
           ELSE /\ rooms' = [rooms EXCEPT ![lock].waiters = Append(@, t)]
                /\ tasks' = [tasks EXCEPT ![t].pc = "waiting"]

\* An OwnedMutexGuard is dropped by a task: tokio's mutex is handed to the
\* task that has waited longest, if one waits.
DropOwnedGuard(t, pc, result) ==
    LET lock == tasks[t].lock
        waiters == rooms[lock].waiters
    IN  IF waiters = <<>>
        THEN /\ rooms' = [rooms EXCEPT ![lock].holder = None]
             /\ tasks' = [tasks EXCEPT ![t].pc = pc, ![t].result = result]
        ELSE /\ rooms' = [rooms EXCEPT ![lock].holder = Some(Head(waiters)),
                                       ![lock].waiters = Tail(waiters)]
             /\ tasks' = [tasks EXCEPT ![t].pc = pc, ![t].result = result,
                                       ![Head(waiters)].pc = "commit"]

\* tx.commit().await?: Ok(RoomGuard), which keeps the guard of the mutex, or
\* the error of the commit, with the guard dropped on the way out.
Commit(t, ok) ==
    /\ tasks[t].pc = "commit"
    /\ IF ok
       THEN /\ tasks' = [tasks EXCEPT ![t].pc = "guard", ![t].result = "Ok"]
            /\ UNCHANGED rooms
       ELSE DropOwnedGuard(t, "idle", "Err")

\* The caller drops its RoomGuard.
DropRoomGuard(t) ==
    /\ tasks[t].pc = "guard"
    /\ DropOwnedGuard(t, "idle", "Ok")

RoomNext ==
    \/ (\E t \in Tasks, room_id \in RoomIds : CommitRoomTransaction(t, room_id))
          /\ UNCHANGED <<blameVars, parseVars, callVars, sideVars, cx, db, tx>>
    \/ (\E t \in Tasks : LockOwned(t))
          /\ UNCHANGED <<blameVars, parseVars, callVars, sideVars, cx, db, tx>>
    \/ (\E t \in Tasks, ok \in BOOLEAN : Commit(t, ok))
          /\ UNCHANGED <<blameVars, parseVars, callVars, sideVars, cx, db, tx>>
    \/ (\E t \in Tasks : DropRoomGuard(t))
          /\ UNCHANGED <<blameVars, parseVars, callVars, sideVars, cx, db, tx>>

\* Database::new: no room has a mutex yet.
RoomInit ==
    /\ IndexInit(InitialBuffer(1, TRUE))
    /\ ParserInit
    /\ CallsIdle
    /\ SideIdle
    /\ cx = [pc |-> "idle"]
    /\ db = [pc |-> "idle"]
    /\ tx = [pc |-> "idle"]
    /\ rooms = <<>>
    /\ tasks = [t \in Tasks |-> [pc |-> "idle", room_id |-> 0, lock |-> 0, calls |-> 0,
                                 result |-> "none"]]

\* Every task is polled until it is done, and a caller drops the RoomGuard it
\* has been given at the end of its scope.
RoomFairSpec ==
    /\ RoomInit
    /\ [][RoomNext]_vars
    /\ \A t \in Tasks :
          /\ WF_roomVars(LockOwned(t))
          /\ WF_roomVars(\E ok \in BOOLEAN : Commit(t, ok))
          /\ WF_roomVars(DropRoomGuard(t))

\* ------------------------------------------------------------------ claims
\* The raw hunks of a list that carry a commit.
Committed(blame_buffer) == SelectSeq(blame_buffer, LAMBDA h : h.final_commit_id # 0)

\* The rows and commit of an emitted hunk, and those a raw hunk stands for.
RowsOf(h) == <<h.buffer_range.start, h.buffer_range.end, h.oid>>
RawRowsOf(h) ==
    <<h.final_start_line - 1, h.final_start_line - 1 + h.lines_in_hunk, h.final_commit_id>>

\* C1: after any updates no hunk a row-range or position-range query returns
\* has the all-zero commit id, and the tree holds one hunk per raw hunk that
\* carries a commit: a raw hunk with the zero id adds none.
C1_NoUncommittedHunk ==
    /\ \A r \in RowRanges(frags) :
          \A h \in Range(hunks_in_row_range(tree, r[1], r[2], frags)) : h.oid # 0
    /\ \A a \in Anchors(frags), b \in Anchors(frags) :
          \A h \in Range(hunks_intersecting_range(tree, [start |-> a, end |-> b], frags)) :
             h.oid # 0
    /\ built # None => Len(tree) = Len(Committed(built[1].blame_buffer))

C1_Witness ==
    /\ built # None
    /\ tree # <<>>
    /\ \E i \in 1..Len(built[1].blame_buffer) : built[1].blame_buffer[i].final_commit_id = 0
    /\ hunks_in_row_range(tree, 0, LineCount(frags), frags) # <<>>

\* C2: an update that fails in the attribution source returns the error and
\* leaves tree and last_buffer_version as they were, so every query answers as before.
C2_FailedUpdateKeepsIndex ==
    [][(last'.op = "update" /\ last'.result # "Ok" /\ last' # last) =>
          /\ last'.result \in {"Err(blame_path)", "Err(blame_buffer)"}
          /\ tree' = tree
          /\ last_buffer_version' = last_buffer_version
          /\ \A r \in RowRanges(frags) :
                hunks_in_row_range(tree', r[1], r[2], frags')
                    = hunks_in_row_range(tree, r[1], r[2], frags)]_vars

C2_Witness ==
    /\ last.op = "update"
    /\ last.result = "Err(blame_buffer)"
    /\ tree # <<>>
    /\ last_buffer_version = Some(1)

\* C3: tree and last_buffer_version always stem from the same update, the last
\* one that returned Ok: the version is that of its snapshot and the tree holds
\* its hunks and no others; before any update succeeded the tree is empty and
\* the version None.
C3_TreeAndVersionOfOneUpdate ==
    IF built = None
    THEN tree = <<>> /\ last_buffer_version = None
    ELSE LET b == built[1]
             raw == Committed(b.blame_buffer)
         IN  /\ last_buffer_version = Some(b.version)
             /\ Len(tree) = Len(raw)
             /\ \A i \in 1..Len(tree) : RowsOf(RowHunk(tree[i], b.frags)) = RawRowsOf(raw[i])

C3_Witness ==
    /\ built # None
    /\ built[1].version = 1
    /\ last.op = "update"
    /\ last.result # "Ok"
    /\ Len(tree) = 2

\* C4: when the source yields non-overlapping hunks in ascending row order, a
\* query over the whole buffer returns the hunks that carry a commit in that
\* order, each with its rows and its own commit id.
C4_WholeBufferQueryKeepsOrder ==
    built # None =>
        LET q == hunks_in_row_range(tree, 0, LineCount(frags), frags)
            raw == Committed(built[1].blame_buffer)
        IN  /\ Len(q) = Len(raw)
            /\ \A i \in 1..Len(q) : RowsOf(q[i]) = RawRowsOf(raw[i])
            /\ \A i \in 1..(Len(q) - 1) : q[i].buffer_range.start < q[i + 1].buffer_range.start

C4_Witness ==
    /\ built # None
    /\ Len(hunks_in_row_range(tree, 0, LineCount(frags), frags)) = 3
    /\ tree[1].oid # tree[2].oid

\* The stored hunks in the rows of the buffer as it is now.
RowHunks == [i \in 1..Len(tree) |-> RowHunk(tree[i], frags)]
MinStartRow == SetMin({RowHunks[i].buffer_range.start : i \in 1..Len(tree)})
MaxEndRow == SetMax({RowHunks[i].buffer_range.end : i \in 1..Len(tree)})

\* C5 as stated: a query whose rows [s, e) are those of one stored hunk returns
\* that hunk and no other, also when other hunks are directly adjacent to it.
C5_ExactMatchReturnsOnlyThatHunk ==
    \A i \in 1..Len(tree) :
        hunks_in_row_range(tree, RowHunks[i].buffer_range.start,
                           RowHunks[i].buffer_range.end, frags) = <<RowHunks[i]>>

\* C5, amended: such a query returns that hunk and with it exactly the stored
\* hunks directly adjacent to it (ending at row s or starting at row e), in
\* ascending row order.
C5_ExactMatchReturnsHunkAndNeighbours ==
    \A i \in 1..Len(tree) :
        LET h == RowHunks[i].buffer_range
        IN  hunks_in_row_range(tree, h.start, h.end, frags)
              = SelectSeq(RowHunks, LAMBDA g : \/ g = RowHunks[i]
                                               \/ g.buffer_range.end = h.start
                                               \/ g.buffer_range.start = h.end)

C5_Witness ==
    /\ Len(tree) = 3
    /\ Len(hunks_in_row_range(tree, RowHunks[1].buffer_range.start,
                              RowHunks[1].buffer_range.end, frags)) = 2
    /\ Len(hunks_in_row_range(tree, RowHunks[2].buffer_range.start,
                              RowHunks[2].buffer_range.end, frags)) = 3

\* C6 as stated, for rows of the buffer: a query for rows [s, e) returns nothing
\* when e is at most the smallest stored start row or s is at least the largest
\* stored end row.
C6_DisjointQueryIsEmpty ==
    tree # <<>> =>
        \A r \in RowRanges(frags) :
            (r[1] < r[2] /\ r[2] <= MaxRow(frags)
                /\ (r[2] <= MinStartRow \/ r[1] >= MaxEndRow)) =>
                hunks_in_row_range(tree, r[1], r[2], frags) = <<>>

\* C6, amended: a query for rows [s, e) returns nothing when e is less than the
\* smallest stored start row, or s is greater than the largest stored end row
\* and no greater than the last row of the buffer.
C6_SeparatedQueryIsEmpty ==
    tree # <<>> =>
        \A r \in RowRanges(frags) :
            (r[2] < MinStartRow \/ (r[1] > MaxEndRow /\ r[1] <= MaxRow(frags))) =>
                hunks_in_row_range(tree, r[1], r[2], frags) = <<>>

C6_Witness ==
    /\ tree # <<>>
    /\ MaxEndRow + 1 < MaxRow(frags)
    /\ hunks_in_row_range(tree, MaxEndRow + 1, MaxRow(frags), frags) = <<>>
    /\ hunks_in_row_range(tree, MaxEndRow, MaxRow(frags), frags) # <<>>

\* C7: an update given the snapshot and the raw hunks of the successful update
\* just before it leaves every row-range query answering as before: hunks do
\* not accumulate.
C7_RepeatedUpdateIsIdempotent ==
    [][(/\ last.op = "update" /\ last.result = "Ok"
        /\ last'.op = "update" /\ last'.result = "Ok" /\ last'.repeated) =>
          \A r \in RowRanges(frags') :
              hunks_in_row_range(tree', r[1], r[2], frags')
                  = hunks_in_row_range(tree, r[1], r[2], frags)]_vars

C7_Witness ==
    /\ last.op = "update"
    /\ last.result = "Ok"
    /\ last.repeated
    /\ Len(hunks_in_row_range(tree, 0, LineCount(frags), frags)) = 2

\* C8: a query answers in the rows of the snapshot it is given. When, since
\* the update, one edit has inserted k whole lines at the start of a row
\* strictly above a stored hunk's first row, the query on the edited snapshot
\* returns that hunk with both rows k greater than at the update and with the
\* same commit id.
C8_InsertAboveShiftsHunk ==
    (last.op = "edit" /\ built # None /\ built[1].version + 1 = version) =>
        \A i \in 1..Len(tree) :
            LET was == RowHunk(tree[i], built[1].frags)
                now == [was EXCEPT !.buffer_range =
                            [start |-> was.buffer_range.start + last.k,
                             end |-> was.buffer_range.end + last.k]]
                q == hunks_in_row_range(tree, 0, LineCount(frags), frags)
            IN  last.row < was.buffer_range.start =>
                    /\ RawRowsOf(built[1].blame_buffer[i]) = RowsOf(was)
                    /\ q[i] = now

C8_Witness ==
    /\ last.op = "edit"
    /\ built # None
    /\ built[1].version + 1 = version
    /\ Len(tree) = 2
    /\ last.row = 0
    /\ hunks_in_row_range(tree, 0, LineCount(frags), frags)[2].buffer_range
          = [start |-> 2, end |-> 3]

\* The stream read so far, cut into records at its filename lines.
RecordEnds == {i \in 1..Len(output) : IsFilenameLine(output[i])}
RecordEnd(k) == CHOOSE i \in RecordEnds : Cardinality({j \in RecordEnds : j <= i}) = k
RecordStart(k) == IF k = 1 THEN 1 ELSE RecordEnd(k - 1) + 1
RecordCount == Cardinality(RecordEnds)

\* A well-formed stream: records only, each a header line of 4 tokens, then
\* lines `key value...`, then a filename line.
WellFormed ==
    /\ Len(output) > 0 => Len(output) \in RecordEnds
    /\ \A k \in 1..RecordCount :
          /\ RecordStart(k) < RecordEnd(k)
          /\ IsHeaderLine(output[RecordStart(k)])
          /\ \A i \in (RecordStart(k) + 1)..RecordEnd(k) : Len(output[i]) >= 2

\* The value of the last line with this key among a record's own lines, if any.
KeyLines(k, key) ==
    {i \in (RecordStart(k) + 1)..RecordEnd(k) : output[i][1] = key}
OwnValue(k, key) ==
    IF KeyLines(k, key) = {} THEN None
    ELSE Some(Join(Tail(output[SetMax(KeyLines(k, key))])))

\* C9: of a well-formed stream of N records parse_git_blame returns N entries
\* in stream order, the k-th with the commit id and the three numbers of the
\* k-th header and with the k-th record's own filename, summary and previous.
C9_OneEntryPerRecord ==
    (parsed = "Ok" /\ WellFormed) =>
        /\ Len(entries) = RecordCount
        /\ \A k \in 1..RecordCount :
              LET header == output[RecordStart(k)]
              IN  /\ entries[k].sha = header[1]
                  /\ entries[k].original_line_number = NumeralValue(header[2])
                  /\ entries[k].final_line_number = NumeralValue(header[3])
                  /\ entries[k].line_count = NumeralValue(header[4])
                  /\ Some(entries[k].filename) = OwnValue(k, "filename")
                  /\ OwnValue(k, "summary") # None =>
                        Some(entries[k].summary) = OwnValue(k, "summary")
                  /\ entries[k].previous = OwnValue(k, "previous")

C9_Witness ==
    /\ parsed = "Ok"
    /\ WellFormed
    /\ RecordCount = 2
    /\ entries[1].sha = UNCOMMITTED_SHA
    /\ entries[2].sha = JoeSha
    /\ entries[2].previous = Some("486c24 index.js")
    /\ entries[1].previous = None

\* C10 as stated: every record, the uncommitted ones included, is stored with
\* the author and the committer its own author and committer lines give.
C10_NamesAsGiven ==
    (parsed = "Ok" /\ WellFormed) =>
        \A k \in 1..RecordCount :
            /\ OwnValue(k, "author") # None =>
                  Some(entries[k].author) = OwnValue(k, "author")
            /\ OwnValue(k, "committer") # None =>
                  Some(entries[k].committer) = OwnValue(k, "committer")

\* The keys of the signature lines, and an entry's nine signature fields.
SignatureKeys ==
    {"author", "author-mail", "author-time", "author-tz",
     "committer", "committer-mail", "committer-time", "committer-tz", "summary"}
SignatureOf(e) ==
    <<e.author, e.author_mail, e.author_time, e.author_tz,
      e.committer, e.committer_mail, e.committer_time, e.committer_tz, e.summary>>

\* Record k carries no signature line of its own.
NoOwnSignature(k) == \A key \in SignatureKeys : KeyLines(k, key) = {}

\* The records before record k that have its commit id.
EarlierSame(k) ==
    {j \in 1..(k - 1) : output[RecordStart(j)][1] = output[RecordStart(k)][1]}

\* C11: in a stream as git writes it, where of the records of one commit id
\* only the first carries signature lines, every later record of that id is
\* returned with the nine signature fields of the earlier records of that id.
C11_LaterRecordInheritsSignature ==
    (parsed = "Ok" /\ WellFormed) =>
        \A k \in 1..RecordCount :
            (/\ EarlierSame(k) # {}
             /\ NoOwnSignature(k)
             /\ \A j \in EarlierSame(k) : EarlierSame(j) # {} => NoOwnSignature(j)) =>
                \A j \in EarlierSame(k) : SignatureOf(entries[k]) = SignatureOf(entries[j])

C11_Witness ==
    /\ parsed = "Ok"
    /\ WellFormed
    /\ RecordCount = 2
    /\ EarlierSame(2) = {1}
    /\ NoOwnSignature(2)
    /\ entries[2].sha = JoeSha
    /\ entries[2].author = "Joe Schmoe"
    /\ entries[2].committer_time = 1000
    /\ entries[2].summary = "Joe's cool commit"

LineRead == output'[Len(output')]
ReadsLine == parsed = "running" /\ Len(output') = Len(output) + 1

\* C13 as stated: while a header is awaited, every line that is not blank and
\* has not exactly 4 tokens makes parse_git_blame return an error.
C13_NonHeaderLineIsError ==
    [][(ReadsLine /\ current_entry = None /\ Len(LineRead) > 0 /\ Len(LineRead) # 4) =>
          parsed' = "Err"]_vars

\* C13, amended: while a header is awaited, every line of 2, 3, 5 or more
\* tokens makes parse_git_blame return an error; a line of exactly one token is
\* skipped as a blank line is: the parser goes on, still awaiting a header.
C13_ShortLineIsSkipped ==
    [][(ReadsLine /\ current_entry = None) =>
          /\ (Len(LineRead) >= 2 /\ Len(LineRead) # 4) => parsed' = "Err"
          /\ Len(LineRead) <= 1 =>
                /\ parsed' = "running"
                /\ current_entry' = None
                /\ entries' = entries
                /\ index' = index]_vars

C13_Witness ==
    /\ parsed = "Err"
    /\ Len(output) = 3
    /\ output[1] = <<"boundary">>
    /\ output[2] = <<>>
    /\ Len(output[3]) = 5

\* A step reads a number that is no integer where the parser takes a number:
\* in a header, or as the value of an author-time or committer-time line.
ReadsBadNumber ==
    /\ ReadsLine
    /\ \/ /\ current_entry = None
          /\ Len(LineRead) = 4
          /\ \E j \in 2..4 : ~ParseU32(LineRead[j]).ok
       \/ /\ current_entry # None
          /\ Len(LineRead) >= 2
          /\ LineRead[1] \in {"author-time", "committer-time"}
          /\ ~ParseI64(Join(Tail(LineRead))).ok

\* C16: a header number or an author-time or committer-time value that is no
\* integer makes parse_git_blame return an error, whatever records were
\* completed before; having failed, it never returns a list.
C16_BadNumberFailsTheStream ==
    [][/\ ReadsBadNumber => parsed' = "Err"
       /\ parsed = "Err" => parsed' = "Err"]_vars

C16_Witness ==
    /\ parsed = "Err"
    /\ Len(entries) = 1
    /\ Len(output) = 4
    /\ output[4] = <<"committer-time", "abc">>

\* C14 as stated: for every valid offset string the offset of the returned
\* time, in seconds, is the integer of committer_tz times 36 ("+0100" gives
\* 3600, "-0200" gives -7200).
C14_OffsetIsTzTimes36 ==
    (datetime.pc = "returned" /\ datetime.returned.result = "Ok") =>
        datetime.returned.datetime.offset = TzValue(datetime.self.committer_tz) * 36

\* The offset string is no integer of 32 bits, or the offset made of it is
\* not less than a day.
BadOffset(tz) ==
    \/ ~IsI32(tz)
    \/ TruncDiv(TzValue(tz), 100) * 36 >= SecondsPerDay
    \/ TruncDiv(TzValue(tz), 100) * 36 <= -SecondsPerDay

Contains(message, text) == text = "" \/ \E i \in DOMAIN message : message[i] = text

\* C17 as stated: when the subprocess has exited with a non-zero status,
\* git_blame_incremental returns an error whose message contains the text the
\* subprocess wrote to its standard error; when spawning fails it returns an error.
C17_ErrorCarriesStderr ==
    adapter.pc = "returned" =>
        LET r == adapter.returned[1]
        IN  /\ r.at = "spawn" => r.result = "Err"
            /\ r.at = "status" =>
                  /\ r.result = "Err"
                  /\ Contains(r.message, adapter.script.stderr)

\* C18: whenever git_blame_incremental waits for the subprocess to exit, it has
\* written the whole content to the subprocess's standard input and has closed it.
C18_StdinClosedBeforeWait ==
    adapter.pc = "wait" =>
        /\ adapter.written = adapter.contents
        /\ adapter.stdin = "closed"

C18_Witness ==
    /\ adapter.pc = "wait"
    /\ adapter.contents = MaxContentLen
    /\ adapter.child = "running"
    /\ adapter.script.reads
    /\ adapter.pipe = PipeCapacity

\* The time of a signature cannot be built: the offset is a day or more, or
\* the seconds are beyond the dates chrono can hold.
BadTime(signature) ==
    \/ signature.offset_minutes >= 1440
    \/ signature.offset_minutes <= -1440
    \/ signature.seconds = I64_MAX

\* The raw hunks of a list whose commit has a time that can be built.
Timed(blame_buffer) ==
    SelectSeq(blame_buffer, LAMBDA h : h.final_commit_id # 0 /\ ~BadTime(h.final_signature))

\* C19 as stated: an update does not return Ok when the time of the signature
\* of one of its hunks cannot be built.
C19_BadTimeFailsUpdate ==
    (last.op = "update" /\ last.result = "Ok") =>
        \A i \in 1..Len(built[1].blame_buffer) :
            ~BadTime(built[1].blame_buffer[i].final_signature)

\* C19, amended: when the time of a hunk's signature cannot be built, update
\* leaves that hunk out and returns Ok; the tree holds the other hunks of the
\* pass, each with its rows and commit id, in their order.
C19_BadTimeHunkIsLeftOut ==
    built # None =>
        LET raw == Timed(built[1].blame_buffer)
        IN  /\ Len(tree) = Len(raw)
            /\ \A i \in 1..Len(tree) :
                  RowsOf(RowHunk(tree[i], built[1].frags)) = RawRowsOf(raw[i])

C19_Witness ==
    /\ last.op = "update"
    /\ last.result = "Ok"
    /\ Len(built[1].blame_buffer) = 3
    /\ built[1].blame_buffer[1].final_commit_id = 3
    /\ built[1].blame_buffer[2].final_commit_id = 1
    /\ built[1].blame_buffer[3].final_commit_id = 4
    /\ Len(tree) = 1
    /\ tree[1].oid = 1

\* C20 as stated: a query merges adjacent spans of one commit. No two
\* consecutive hunks it returns have the same commit id and touching rows.
C20_AdjacentSameCommitMerged ==
    LET q == hunks_in_row_range(tree, 0, LineCount(frags), frags)
    IN  \A i \in 1..(Len(q) - 1) :
            ~(q[i].oid = q[i + 1].oid /\ q[i].buffer_range.end = q[i + 1].buffer_range.start)

\* C20, amended: a query merges nothing. Every hunk it returns is one stored
\* hunk in rows, and a query over the whole buffer returns one hunk per stored
\* hunk, adjacent hunks of one commit included.
C20_OneHunkPerStoredHunk ==
    /\ hunks_in_row_range(tree, 0, LineCount(frags), frags) = RowHunks
    /\ \A r \in RowRanges(frags) :
          \A h \in Range(hunks_in_row_range(tree, r[1], r[2], frags)) : h \in Range(RowHunks)

C20_Witness ==
    /\ Len(tree) = 3
    /\ tree[1].oid = tree[2].oid
    /\ tree[2].oid = tree[3].oid
    /\ RowHunks[1].buffer_range.end = RowHunks[2].buffer_range.start
    /\ Len(hunks_in_row_range(tree, 0, LineCount(frags), frags)) = 3

\* Thread t is inside its blame invocation.
InBlame(t) == threads[t].pc \in {"blame_path", "blame_buffer", "build"}

\* C21: a thread holds the repository mutex throughout its blame invocation
\* and holds it no longer once update has returned, with Ok or with an error;
\* two threads are never inside their blame invocations at once; and a thread
\* that has called update always comes to return from it.
C21_MutexAroundBlame ==
    /\ [](\A t \in Threads :
            /\ InBlame(t) => mutex = Some(t)
            /\ threads[t].pc \in {"idle", "lock", "returned"} => mutex # Some(t))
    /\ [](\A t \in Threads, u \in Threads : (InBlame(t) /\ InBlame(u)) => t = u)
    /\ \A t \in Threads : (threads[t].pc = "lock") ~> (threads[t].pc = "returned")

C21_Witness ==
    /\ threads[1].pc = "lock"
    /\ threads[2].pc = "blame_buffer"
    /\ mutex = Some(2)
    /\ threads[1].result = "Err(blame_path)"
    /\ threads[2].result = "Ok"

\* C22: no step of a query, be it begun, advanced, ended or dropped part-way,
\* changes tree or last_buffer_version; and a query that has run to its end has
\* yielded the hunks the same query yielded when it first ran to its end, which
\* are those of hunks_in_row_range for its rows.
C22_QueryLeavesIndexAlone ==
    /\ [][query' # query =>
            (tree' = tree /\ last_buffer_version' = last_buffer_version)]_vars
    /\ [](query.pc = "done" =>
            /\ query.first = Some(query.yielded)
            /\ query.yielded
                  = hunks_in_row_range(tree, query.rows[1], query.rows[2], frags))

C22_Witness ==
    /\ query.pc = "iterating"
    /\ query.first # None
    /\ Len(query.first[1]) = 3
    /\ Len(query.yielded) = 2
    /\ Len(tree) = 3
    /\ last_buffer_version = Some(0)

\* The raw hunks of the last successful update that carry a commit and a known
\* line count, each with the hunk stored for it.
Usable(blame_buffer) ==
    SelectSeq(blame_buffer,
              LAMBDA h : h.final_commit_id # 0 /\ h.lines_in_hunk # USIZE_MAX)

StartPoint(i) == SummaryForAnchor(frags, tree[i].buffer_range.start)
EndPoint(i) == SummaryForAnchor(frags, tree[i].buffer_range.end)

\* C23 as stated: the hunk stored for a raw hunk with a commit, start line L and
\* count C has its start anchor at (L - 1, 0) and its end anchor at (L - 1 + C, 0)
\* of the snapshot passed to update.
C23_EndAnchorAtRowAfterHunk ==
    built # None =>
        LET raw == Usable(built[1].blame_buffer)
        IN  \A i \in 1..Len(tree) :
               /\ StartPoint(i) = [row |-> raw[i].final_start_line - 1, column |-> 0]
               /\ EndPoint(i) = [row |-> raw[i].final_start_line - 1 + raw[i].lines_in_hunk,
                                 column |-> 0]

\* C23, amended: the start anchor is at (L - 1, 0); the end anchor is at
\* (L - 1 + C, 0) when the snapshot has that row, and at the end of the buffer
\* otherwise (the hunk's last line has no newline); a query on the unedited
\* snapshot returns rows [L - 1, L - 1 + C) in both cases.
C23_EndAnchorAtRowAfterHunkOrBufferEnd ==
    built # None =>
        LET raw == Usable(built[1].blame_buffer)
        IN  /\ Len(tree) = Len(raw)
            /\ \A i \in 1..Len(tree) :
                  LET start_row == raw[i].final_start_line - 1
                      end_row == start_row + raw[i].lines_in_hunk
                  IN  /\ StartPoint(i) = [row |-> start_row, column |-> 0]
                      /\ EndPoint(i) = IF end_row <= MaxRow(frags)
                                       THEN [row |-> end_row, column |-> 0]
                                       ELSE [row |-> MaxRow(frags), column |-> MaxCol(frags)]
                      /\ RowHunk(tree[i], frags).buffer_range
                            = [start |-> start_row, end |-> end_row]

C23_Witness ==
    /\ built # None
    /\ Len(tree) = 2
    /\ MaxCol(frags) > 0
    /\ EndPoint(1) = [row |-> 1, column |-> 0]
    /\ EndPoint(2) = [row |-> 2, column |-> 1]
    /\ RowHunk(tree[2], frags).buffer_range = [start |-> 1, end |-> 3]

\* C24: a raw hunk whose line count is usize::MAX adds no hunk to the tree, and
\* the update returns Ok all the same: the tree then holds the other usable
\* hunks of the pass, all of them, in the order the source gave them; update
\* fails only when the source fails.
C24_SentinelHunkIsSkipped ==
    /\ last.op = "update" /\ last.result # "Ok"
          => last.result \in {"Err(blame_path)", "Err(blame_buffer)"}
    /\ built # None =>
          LET raw == Usable(built[1].blame_buffer)
          IN  /\ Len(tree) = Len(raw)
              /\ \A i \in 1..Len(tree) : RowsOf(RowHunk(tree[i], frags)) = RawRowsOf(raw[i])

C24_Witness ==
    /\ built # None
    /\ last.op = "update"
    /\ last.result = "Ok"
    /\ Len(built[1].blame_buffer) = 3
    /\ built[1].blame_buffer[2].lines_in_hunk = USIZE_MAX
    /\ Len(tree) = 2
    /\ RowsOf(RowHunk(tree[2], frags)) = <<2, 3, 1>>

\* The commit ids whose signature a pass over blame_buffer, begun with the cache
\* `signatures`, asks the repository for, one entry per time it asks.
RECURSIVE ResolvedOids(_, _, _, _)
ResolvedOids(blame_buffer, hunk_index, f, signatures) ==
    IF hunk_index > Len(blame_buffer) THEN <<>>
    ELSE LET hunk == blame_buffer[hunk_index]
             asked == /\ hunk.final_commit_id # 0
                      /\ hunk.lines_in_hunk # USIZE_MAX
                      /\ hunk.final_commit_id \notin DOMAIN signatures
             r == process_blame_hunk(hunk, f, signatures)
         IN  (IF asked THEN <<hunk.final_commit_id>> ELSE <<>>)
                \o ResolvedOids(blame_buffer, hunk_index + 1, f, r.signatures)

TimesResolved(blame_buffer, f, oid) ==
    Len(SelectSeq(ResolvedOids(blame_buffer, 1, f, <<>>), LAMBDA o : o = oid))

\* The first raw hunk of a commit in a pass.
FirstOf(blame_buffer, oid) ==
    blame_buffer[SetMin({i \in 1..Len(blame_buffer) : blame_buffer[i].final_commit_id = oid})]

\* Name, email and time of every stored hunk are those of the first raw hunk of
\* its commit in the pass that built the tree, whatever earlier passes cached.
SignatureOfFirstHunk ==
    \A i \in 1..Len(tree) :
        LET first == FirstOf(built[1].blame_buffer, tree[i].oid).final_signature
        IN  /\ tree[i].name = first.name
            /\ tree[i].email = first.email
            /\ tree[i].time = [seconds |-> first.seconds, offset |-> first.offset_minutes * 60]

\* C25 as stated: the hunks of one commit in the tree carry the signature
\* resolved for the first hunk of that commit in the pass, and a pass resolves
\* the signature of no commit id more than once.
C25_ResolvedOncePerCommit ==
    built # None =>
        /\ SignatureOfFirstHunk
        /\ \A oid \in {1, 3} : TimesResolved(built[1].blame_buffer, built[1].frags, oid) <= 1

\* C25, amended: the hunks of one commit in the tree carry the signature
\* resolved for the first hunk of that commit in the pass; a pass resolves the
\* signature of a commit once when its time can be built, and once for every
\* hunk of the commit when it cannot, since nothing is cached for it.
C25_ResolvedOncePerTimedCommit ==
    built # None =>
        LET blame_buffer == built[1].blame_buffer
            hunksOf(oid) == SelectSeq(blame_buffer, LAMBDA h : h.final_commit_id = oid)
        IN  /\ SignatureOfFirstHunk
            /\ \A oid \in {1, 3} :
                  TimesResolved(blame_buffer, built[1].frags, oid)
                    = IF hunksOf(oid) = <<>> THEN 0
                      ELSE IF BadTime(hunksOf(oid)[1].final_signature)
                           THEN Len(hunksOf(oid))
                           ELSE 1

C25_Witness ==
    /\ built # None
    /\ Len(built[1].blame_buffer) = 3
    /\ built[1].blame_buffer[1].final_signature.name = Some("A2")
    /\ built[1].blame_buffer[2].final_commit_id = 3
    /\ built[1].blame_buffer[3].final_signature.name = Some("A")
    /\ Len(tree) = 2
    /\ tree[2].name = Some("A2")
    /\ last.op = "update" /\ last.result = "Ok" /\ ~last.repeated
    /\ last_buffer_version = Some(0)

\* The stored hunks that a scan of all of them keeps: those that neither end
\* before the start of the range nor start after its end.
LinearScan(t, range, f) ==
    SelectSeq(t, LAMBDA h : /\ AnchorCmp(h.buffer_range.end, range.start, f) >= 0
                            /\ AnchorCmp(h.buffer_range.start, range.end, f) <= 0)

\* C26: whatever the shape of the tree, the traversal that skips every subtree
\* whose summary fails the test emits exactly the stored hunks that neither end
\* before the start of the range nor start after its end, in tree order.
C26_PrunedTraversalIsLinearScan ==
    query.pc = "filtered" =>
        LET scanned == LinearScan(tree, query.range, frags)
        IN  /\ query.emitted = [i \in 1..Len(scanned) |-> RowHunk(scanned[i], frags)]
            /\ query.emitted = hunks_intersecting_range(tree, query.range, frags)

C26_Witness ==
    /\ query.pc = "filtered"
    /\ Len(tree) = 4
    /\ query.leaves = <<1, 2, 1>>
    /\ query.nodes = <<2, 1>>
    /\ Len(query.emitted) = 1
    /\ query.emitted[1].buffer_range = [start |-> 3, end |-> 4]

\* C27: of each hunk a query emits, the start row is the row of the point its
\* start anchor resolves to, the end row is the row of the point its end anchor
\* resolves to, one more exactly when that point's column is not zero, and
\* name, email, time and commit id are those of the stored hunk.
C27_RowsOfResolvedAnchors ==
    \A r \in RowRanges(frags) :
        LET emitted == hunks_in_row_range(tree, r[1], r[2], frags)
            stored == LinearScan(tree, [start |-> anchor_before(frags, r[1]),
                                        end |-> anchor_after(frags, r[2])], frags)
        IN  /\ Len(emitted) = Len(stored)
            /\ \A i \in 1..Len(emitted) :
                  LET start_point == SummaryForAnchor(frags, stored[i].buffer_range.start)
                      end_point == SummaryForAnchor(frags, stored[i].buffer_range.end)
                  IN  /\ emitted[i].buffer_range.start = start_point.row
                      /\ emitted[i].buffer_range.end
                            = end_point.row + (IF end_point.column # 0 THEN 1 ELSE 0)
                      /\ emitted[i].oid = stored[i].oid
                      /\ emitted[i].name = stored[i].name
                      /\ emitted[i].email = stored[i].email
                      /\ emitted[i].time = stored[i].time

C27_Witness ==
    /\ last.op = "delete"
    /\ Len(tree) = 2
    /\ tree[1].oid # tree[2].oid
    /\ EndPoint(1).column # 0
    /\ EndPoint(2).column = 0
    /\ hunks_in_row_range(tree, 0, 1, frags) = RowHunks
    /\ RowHunks[1].buffer_range = [start |-> 0, end |-> 1]

\* C28: whatever insertions and deletions the buffer has seen since the update,
\* every hunk a query returns has a start row that is not greater than its end row.
C28_StartRowNotAfterEndRow ==
    /\ \A i \in 1..Len(tree) : RowHunks[i].buffer_range.start <= RowHunks[i].buffer_range.end
    /\ \A r \in RowRanges(frags) :
          \A h \in Range(hunks_in_row_range(tree, r[1], r[2], frags)) :
             h.buffer_range.start <= h.buffer_range.end

\* A deletion has joined the last line of one hunk with the first of the next.
C28_Witness ==
    /\ last.op = "delete"
    /\ Len(tree) = 2
    /\ StartPoint(2).column # 0
    /\ RowHunks[2].buffer_range.start = RowHunks[1].buffer_range.start
    /\ RowHunks[2].buffer_range.start < RowHunks[2].buffer_range.end

\* The keys parse_git_blame knows.
KnownKeys ==
    {"filename", "summary", "previous", "author", "author-mail", "author-time", "author-tz",
     "committer", "committer-mail", "committer-time", "committer-tz"}

\* A line of a record whose key is not among them.
UnknownKeyLine(parts) ==
    ~IsHeaderLine(parts) /\ (parts = <<>> \/ parts[1] \notin KnownKeys)

\* A stream with such lines taken out.
WithoutUnknown(lines) == SelectSeq(lines, LAMBDA parts : ~UnknownKeyLine(parts))

\* What parse_git_blame has made of the lines of a stream, read from its start:
\* the list, the open record and whether it has failed.
RECURSIVE ParseOf(_)
ParseOf(lines) ==
    IF lines = <<>>
    THEN [entries |-> <<>>, index |-> <<>>, current_entry |-> None, parsed |-> "running"]
    ELSE LET before == ParseOf(SubSeq(lines, 1, Len(lines) - 1))
             parts == lines[Len(lines)]
         IN  IF before.parsed # "running" \/ Len(parts) < 2 THEN before
             ELSE IF before.current_entry = None
             THEN LET r == new_from_first_entry_line(parts)
                      seen == /\ r.entry.sha \in DOMAIN before.index
                              /\ before.index[r.entry.sha] < Len(before.entries)
                  IN  IF ~r.ok THEN [before EXCEPT !.parsed = "Err"]
                      ELSE [before EXCEPT !.current_entry =
                               Some(IF seen
                                    THEN Backfill(r.entry,
                                                  before.entries[before.index[r.entry.sha] + 1])
                                    ELSE r.entry)]
             ELSE LET r == ApplyField(before.current_entry[1], parts[1], Join(Tail(parts)))
                  IN  IF ~r.ok THEN [before EXCEPT !.parsed = "Err"]
                      ELSE IF r.done
                      THEN [before EXCEPT
                               !.index = IndexInsert(before.index, r.entry.sha, Len(before.entries)),
                               !.entries = Append(before.entries, r.entry),
                               !.current_entry = None]
                      ELSE [before EXCEPT !.current_entry = Some(r.entry)]

\* C29: a line of a record whose key is not known is read without an error and
\* leaves the open record, the list and the index as they were; and the stream
\* with every such line taken out parses to the same list, the same open
\* record and the same outcome.
C29_UnknownKeyIsIgnored ==
    /\ [][(parsed = "running" /\ Len(output') = Len(output) + 1
            /\ UnknownKeyLine(output'[Len(output')]))
           => UNCHANGED <<entries, index, current_entry, parsed>>]_vars
    /\ [](LET bare == ParseOf(WithoutUnknown(output))
          IN  /\ bare.entries = entries
              /\ bare.current_entry = current_entry
              /\ bare.parsed = IF parsed = "Ok" THEN "running" ELSE parsed)

C29_Witness ==
    /\ parsed = "Ok"
    /\ Len(entries) = 1
    /\ entries[1].author = "Joe Schmoe"
    /\ Len(output) = 5
    /\ output[2] = <<"extension", "value">>
    /\ output[4] = <<"Author", "Thorsten", "Ball">>
    /\ Len(WithoutUnknown(output)) = 3

\* The parser awaits a header, or a record is open.
AwaitingHeader == current_entry = None
RecordOpen == current_entry # None

\* A step has parsed the line it read as a header: it has failed on it, or has
\* opened a record with the commit id and the numbers of the line.
ParsedAsHeader ==
    \/ parsed' = "Err"
    \/ /\ current_entry' # None
       /\ new_from_first_entry_line(LineRead).ok
       /\ current_entry'[1].sha = LineRead[1]
       /\ current_entry'[1].final_line_number
            = new_from_first_entry_line(LineRead).entry.final_line_number

\* C30 as stated: a record is appended exactly when a filename line is read
\* while a record is open, and the parser then awaits a header; while it awaits
\* a header every line that is not blank is parsed as a header, and while a
\* record is open no line is.
C30_EveryNonBlankLineIsAHeader ==
    [][ReadsLine =>
          /\ (entries' # entries) <=> (RecordOpen /\ LineRead # <<>> /\ LineRead[1] = "filename")
          /\ entries' # entries => current_entry' = None
          /\ (AwaitingHeader /\ LineRead # <<>>) => ParsedAsHeader
          /\ RecordOpen => (current_entry' = None \/ current_entry'[1].sha = current_entry[1].sha)]_vars

\* C30, amended: a record is appended exactly when a filename line with a name
\* is read while a record is open, and the parser then awaits a header; while
\* it awaits a header every line of two or more tokens is parsed as a header
\* and a line of one token is skipped as a blank line is; while a record is open
\* no line is parsed as a header: a header line leaves the record as it is.
C30_TwoStatesAlternate ==
    [][ReadsLine =>
          /\ (entries' # entries)
                <=> (RecordOpen /\ Len(LineRead) >= 2 /\ LineRead[1] = "filename")
          /\ entries' # entries =>
                /\ current_entry' = None
                /\ entries' = Append(entries, [current_entry[1] EXCEPT
                                                  !.filename = Join(Tail(LineRead))])
          /\ (AwaitingHeader /\ Len(LineRead) >= 2) => ParsedAsHeader
          /\ (AwaitingHeader /\ Len(LineRead) <= 1) =>
                UNCHANGED <<entries, index, current_entry, parsed>>
          /\ (RecordOpen /\ entries' = entries) =>
                /\ current_entry' # None
                /\ current_entry'[1].sha = current_entry[1].sha
                /\ parsed' = "running"
          /\ (RecordOpen /\ IsHeaderLine(LineRead)) =>
                UNCHANGED <<entries, index, current_entry, parsed>>]_vars

C30_Witness ==
    /\ parsed = "running"
    /\ Len(output) = 5
    /\ output[1] = <<"boundary">>
    /\ output[2] = HeaderJoe
    /\ output[3] = HeaderJoe
    /\ output[4] = <<"filename">>
    /\ output[5] = <<"filename", "index.js">>
    /\ Len(entries) = 1
    /\ current_entry = None

\* C31: with a subprocess that reads its standard input to the end before it
\* writes output and exits, git_blame_incremental returns, Ok or Err, whatever
\* the size of the content and of the output; while it has not returned, the
\* adapter or the subprocess can take a step.
C31_AdapterTerminates ==
    /\ <>(adapter.pc = "returned")
    /\ [](adapter.pc = "returned" => adapter.returned[1].result \in {"Ok", "Err"})
    /\ [](adapter.pc # "returned" => ENABLED PipeNext)

C31_Witness ==
    /\ adapter.pc = "returned"
    /\ adapter.returned[1].result = "Ok"
    /\ adapter.contents > PipeCapacity
    /\ adapter.out_len > PipeCapacity
    /\ adapter.read = adapter.contents
    /\ adapter.collected = adapter.out_len

\* A hunk in rows shares at least one row with the rows [s, e).
SharesRow(h, s, e) == h.buffer_range.start < e /\ s < h.buffer_range.end

\* C32: hunks_in_row_range(s, e) returns every stored hunk whose rows, resolved
\* in the snapshot of the query, share at least one row with [s, e): the stored
\* hunks that do are all among the returned ones, in their order, however the
\* buffer has been edited since the update.
C32_IntersectingHunkIsReturned ==
    \A r \in RowRanges(frags) :
        SelectSeq(hunks_in_row_range(tree, r[1], r[2], frags),
                  LAMBDA h : SharesRow(h, r[1], r[2]))
          = SelectSeq(RowHunks, LAMBDA h : SharesRow(h, r[1], r[2]))

C32_Witness ==
    /\ last.op = "delete"
    /\ version = 2
    /\ Len(tree) = 2
    /\ RowHunks[1].buffer_range = [start |-> 0, end |-> 1]
    /\ RowHunks[2].buffer_range = [start |-> 0, end |-> 2]
    /\ SharesRow(RowHunks[1], 0, 1) /\ SharesRow(RowHunks[2], 0, 1)
    /\ hunks_in_row_range(tree, 0, 1, frags) = RowHunks
    /\ hunks_in_row_range(tree, 1, 2, frags) = <<RowHunks[2]>>

\* A record was open when the i-th line of the stream was read.
OpenBefore(i) == ParseOf(SubSeq(output, 1, i - 1)).current_entry # None

\* The filename lines read while a record was open.
ClosingLines == {i \in 1..Len(output) : IsFilenameLine(output[i]) /\ OpenBefore(i)}

\* C33: the list holds as many entries as filename lines were read while a
\* record was open; when the stream ends, parse_git_blame returns Ok with the
\* list as it is, so a record still open is not in it.
C33_OpenRecordIsDiscarded ==
    /\ [](Len(entries) = Cardinality(ClosingLines))
    /\ [][(parsed = "running" /\ output' = output /\ parsed' # parsed) =>
            (parsed' = "Ok" /\ entries' = entries)]_vars

C33_Witness ==
    /\ parsed = "Ok"
    /\ current_entry # None
    /\ Len(output) = 5
    /\ output[3] = <<"filename", "index.js">>
    /\ output[5] = <<"summary", "Fix">>
    /\ Len(entries) = 1

\* C34 as stated: committer_datetime never aborts: for every committer_time
\* (a time outside the dates chrono can hold included) and every committer_tz
\* string it returns Ok or it returns Err.
C34_NeverAborts ==
    datetime.pc = "returned" => datetime.returned.result \in {"Ok", "Err"}

\* The call that aborts: the time is i64::MAX seconds and the offset is a good one.
C34_Aborts ==
    /\ datetime.pc = "returned"
    /\ datetime.self.committer_time = I64_MAX
    /\ datetime.self.committer_tz = "+0100"
    /\ datetime.returned.result = "Panic"

\* C35 as stated: after init and any sequence of set_enabled calls, the
\* "assistant" namespace is among the hidden namespaces of the command palette
\* filter exactly when the argument of the most recent set_enabled call was
\* false, and the stored enabled flag equals that argument.
C35_HiddenIffLastDisabled ==
    cx.pc = "observing" =>
        /\ (NAMESPACE \in cx.filter.hidden_namespaces) = ~cx.calls[Len(cx.calls)]
        /\ cx.assistant.enabled = cx.calls[Len(cx.calls)]

\* The assistant was enabled at init and is disabled in the settings
\* afterwards: its namespace stays in the command palette.
C35_StaysShown ==
    /\ cx.pc = "observing"
    /\ cx.calls = <<TRUE, FALSE>>
    /\ NAMESPACE \notin cx.filter.hidden_namespaces
    /\ cx.assistant.enabled = FALSE

\* transact has returned what an attempt of the closure came to (and not the
\* error of a begin).
ReturnedFromClosure ==
    /\ tx.pc = "returned"
    /\ tx.outcomes # <<>>
    /\ tx.outcomes[Len(tx.outcomes)] # "40001"

\* C36: transact runs its closure on a newly begun transaction at every attempt
\* (one that sees the committed rows and nothing of the attempts before);
\* every attempt before the last has failed with a serialization failure, and
\* what transact returns is the outcome of the first attempt that has not;
\* once the serialization failures stop transact returns; and the committed
\* rows change only in an attempt that succeeds, by what one run of the closure
\* on the committed rows does.
C36_TransactRetriesOnSerializationFailure ==
    /\ [][(tx.pc = "begin" /\ tx'.pc = "closure") => tx'.view = Some(db.tables)]_vars
    /\ [](tx.pc \in {"begin", "closure", "returned"} =>
            /\ \A i \in 1..(Len(tx.outcomes) - 1) : tx.outcomes[i] = "40001"
            /\ tx.pc # "returned" => \A i \in 1..Len(tx.outcomes) : tx.outcomes[i] = "40001"
            /\ ReturnedFromClosure =>
                  tx.returned[1].result = tx.outcomes[Len(tx.outcomes)])
    /\ (tx.pc = "begin") ~> (tx.pc = "returned")
    /\ [][db.tables' # db.tables =>
            /\ tx'.pc = "returned"
            /\ tx'.returned[1].result = "Ok"
            /\ db.tables' = Closure(tx.call, db.tables, db.id_seq, NoFault).view]_vars

\* A token is created at the third attempt, after two serialization failures:
\* the table holds the new token alone.
C36_Witness ==
    /\ tx.pc = "returned"
    /\ tx.call.method = "create_access_token_hash"
    /\ tx.outcomes = <<"40001", "40001", "Ok">>
    /\ tx.returned[1].result = "Ok"
    /\ Len(db.tables.access_token) = 1
    /\ db.tables.access_token[1].hash = "h2"

\* The contact rows of two users, in either order.
RowsOfPair(contact, u, v) ==
    {r \in contact : {r.user_id_a, r.user_id_b} = {u, v}}

\* The state of a request of sender to receiver in a contact table.
RequestState(contact, sender, receiver) ==
    LET rows == RowsOfPair(contact, sender, receiver)
        row == CHOOSE r \in rows : TRUE
    IN  IF rows = {} THEN "none"
        ELSE IF row.accepted THEN "accepted"
        ELSE IF (row.user_id_a = sender) = row.a_to_b THEN "pending"
        ELSE "incoming"

\* send_contact_request returns from an attempt in which no statement failed.
ContactRequestReturns ==
    /\ tx.pc = "closure"
    /\ tx'.pc = "returned"
    /\ tx.call.method = "send_contact_request"
    /\ tx'.returned[1].value # "database error"

\* C37: at most one contact row exists for two users, under the smaller id as
\* user_id_a; a request where there is no row creates one row, pending and in
\* the direction of the request; a request repeated while it is pending fails
\* with 'contact already requested' and changes nothing; a request in the
\* opposite direction while one is pending marks the row accepted; a request
\* on an accepted contact fails and changes nothing.
C37_ContactRequestStates ==
    /\ [](tx.pc # "idle" =>
            \A r1 \in db.tables.contact :
                /\ r1.user_id_a < r1.user_id_b
                /\ \A r2 \in db.tables.contact :
                      (r1.user_id_a = r2.user_id_a /\ r1.user_id_b = r2.user_id_b) => r1 = r2)
    /\ [][ContactRequestReturns =>
            LET s == tx.call.sender_id
                r == tx.call.receiver_id
                before == RequestState(db.tables.contact, s, r)
                after == RequestState(db.tables'.contact, s, r)
                rest == db.tables.contact \ RowsOfPair(db.tables.contact, s, r)
                rest_after == db.tables'.contact \ RowsOfPair(db.tables'.contact, s, r)
            IN  /\ rest_after = rest
                /\ before = "none" =>
                      /\ tx'.returned[1].result = "Ok"
                      /\ after = "pending"
                      /\ Cardinality(RowsOfPair(db.tables'.contact, s, r)) = 1
                /\ before = "pending" =>
                      /\ tx'.returned[1] = [result |-> "Err",
                                            value |-> "contact already requested"]
                      /\ db.tables' = db.tables
                /\ before = "incoming" =>
                      /\ tx'.returned[1].result = "Ok"
                      /\ after = "accepted"
                /\ before = "accepted" =>
                      /\ tx'.returned[1].result = "Err"
                      /\ db.tables' = db.tables]_vars

\* User 1 has asked user 2, user 2 has asked user 1, and a third request of
\* user 1 has failed: the contact is accepted.
C37_Witness ==
    /\ tx.pc = "returned"
    /\ tx.calls = 3
    /\ tx.call = [method |-> "send_contact_request", sender_id |-> 1, receiver_id |-> 2]
    /\ tx.returned[1] = [result |-> "Err", value |-> "contact already requested"]
    /\ db.tables.contact = {[user_id_a |-> 1, user_id_b |-> 2, a_to_b |-> TRUE,
                             accepted |-> TRUE, should_notify |-> FALSE]}

\* create_access_token_hash returns Ok: its transaction has been committed.
TokenCreated ==
    /\ tx.pc = "closure"
    /\ tx'.pc = "returned"
    /\ tx.call.method = "create_access_token_hash"
    /\ tx'.returned[1].result = "Ok"

\* After create_access_token_hash(u, h, max) the user holds the min(n + 1, max)
\* newest of the n tokens held before and the new one, the new one included,
\* and the tokens of the other users are what they were.
KeepsNewest ==
    LET u == tx.call.user_id
        max == tx.call.max_access_token_count
        pre == TokensOf(db.tables.access_token, u)
        post == TokensOf(db.tables'.access_token, u)
        n == Len(pre)
        k == IF n + 1 < max THEN n + 1 ELSE max
    IN  /\ Len(post) = k
        /\ post[k].hash = tx.call.access_token_hash
        /\ post[k].id > db.id_seq
        /\ \A i \in 1..(k - 1) : post[i] = pre[n + 1 - k + i]

OthersKept ==
    \A v \in UserIds \ {tx.call.user_id} :
        TokensOf(db.tables'.access_token, v) = TokensOf(db.tables.access_token, v)

\* get_access_token_hashes(u) returns the hashes of the user's tokens, the one
\* of the highest id first.
ListsNewestFirst ==
    (/\ tx.pc = "closure"
     /\ tx'.pc = "returned"
     /\ tx.call.method = "get_access_token_hashes"
     /\ tx'.returned[1].result = "Ok") =>
        LET own == TokensOf(db.tables.access_token, tx.call.user_id)
            listed == tx'.returned[1].value
        IN  /\ Len(listed) = Len(own)
            /\ \A i \in 1..Len(own) : listed[i] = own[Len(own) + 1 - i].hash
            /\ \A i \in 1..(Len(own) - 1) : own[i].id < own[i + 1].id

\* C38 as stated: after every committed create_access_token_hash(u, h, max)
\* with max >= 1 the user holds at most max tokens, those of the highest ids,
\* the new one included; get_access_token_hashes lists them newest first; and
\* the tokens of other users are never deleted.
C38_AtMostMaxTokens ==
    /\ [][TokenCreated => (KeepsNewest /\ OthersKept)]_vars
    /\ [][ListsNewestFirst]_vars

\* C38, amended: the same, for a user who holds no more than
\* max + SubqueryLimit tokens once the new one is inserted.
C38_AtMostMaxTokensWithinLimit ==
    /\ [][TokenCreated =>
            /\ OthersKept
            /\ Len(TokensOf(db.tables.access_token, tx.call.user_id)) + 1
                    <= tx.call.max_access_token_count + SubqueryLimit
                  => KeepsNewest]_vars
    /\ [][ListsNewestFirst]_vars

\* Three tokens have been created for user 1, the last two with a limit of
\* two: the user holds the second and the third.
C38_Witness ==
    /\ tx.pc = "returned"
    /\ tx.calls = 3
    /\ tx.call = [method |-> "create_access_token_hash", user_id |-> 1,
                  access_token_hash |-> "h2", max_access_token_count |-> 2]
    /\ tx.returned[1].result = "Ok"
    /\ db.tables.access_token = <<[id |-> 2, user_id |-> 1, hash |-> "h1"],
                                  [id |-> 3, user_id |-> 1, hash |-> "h2"]>>

\* The tasks that hold the mutex of a room: those about to commit its
\* transaction and those that keep a RoomGuard of it.
HoldingRoom(room_id) ==
    {t \in Tasks : tasks[t].pc \in {"commit", "guard"} /\ tasks[t].room_id = room_id}

\* The tasks that keep a RoomGuard of a room.
GuardsOf(room_id) == {t \in Tasks : tasks[t].pc = "guard" /\ tasks[t].room_id = room_id}

\* C39: a task commits a room transaction, and keeps the RoomGuard it is
\* given, only while it holds the mutex of that room; no room has two
\* RoomGuards alive; a task waits only while another task holds the mutex of
\* the same room, and a task that asks for the mutex of a room comes to commit.
C39_RoomGuardHoldsRoomMutex ==
    /\ [](\A t \in DOMAIN tasks :
            tasks[t].pc \in {"commit", "guard"} =>
                /\ tasks[t].room_id \in DOMAIN rooms
                /\ rooms[tasks[t].room_id].holder = Some(t))
    /\ [](\A room_id \in RoomIds :
            /\ Cardinality(GuardsOf(room_id)) <= 1
            /\ Cardinality(HoldingRoom(room_id)) <= 1)
    /\ [](\A t \in DOMAIN tasks :
            tasks[t].pc = "waiting" => HoldingRoom(tasks[t].room_id) \ {t} # {})
    /\ \A t \in Tasks :
          (tasks[t].pc \in {"lock_owned", "waiting"}) ~> (tasks[t].pc = "commit")

\* Task 1 keeps the RoomGuard of room 1 and task 2 that of room 2, while task
\* 3 waits for room 1.
C39_Witness ==
    /\ DOMAIN tasks = Tasks
    /\ tasks[1].pc = "guard" /\ tasks[1].room_id = 1
    /\ tasks[2].pc = "guard" /\ tasks[2].room_id = 2
    /\ tasks[3].pc = "waiting" /\ tasks[3].room_id = 1

====
